---- MODULE Spec2Model ----
(***************************************************************************)
(* Collaborative spreadsheet (React client + Socket.IO relay).             *)
(*                                                                         *)
(* Strings that the code takes apart are modelled by their characters:     *)
(*   - a cell id such as "B12" is the pair <<66, 12>>: the char code of    *)
(*     its single column character and the number printed after it.       *)
(*     getCellId builds the pair with String.fromCharCode(65 + col), so    *)
(*     column index 26 gives char code 91 ("["), which the regular         *)
(*     expression of parseCellId does not match;                           *)
(*   - a raw cell value is a sequence of one-character strings, so that    *)
(*     parseFloat can be computed on it.                                   *)
(***************************************************************************)
EXTENDS Integers, Sequences, FiniteSets, TLC

VARIABLES
    \* one client's grid, followed through local operations (SpecGrid)
    gridCells,      \* data.cells of the client
    gridPrev,       \* data.cells before the last handler ran
    gridOp,         \* the last handler invoked and its arguments
    gridEmit,       \* what the last handler passed to socket.emit
    gridSteps,      \* number of handlers run so far
    \* the formula evaluator applied to a document (SpecFormula)
    fData,          \* data.cells handed to the evaluator
    fInput,         \* function name and range corners the formula was typed from
    fFormula,       \* the formula text
    fResult,        \* evaluateFormula(fFormula, data)
    fDisplay,       \* getFormulaDisplayValue(fFormula, data)
    fError,         \* getFormulaError(fFormula, data)
    \* the clients, the relay and the sockets between them (Spec)
    connected,      \* socket.connected of each client
    oncePending,    \* the socket.once('connect', ...) listener is registered
    showUserModal,  \* App state showUserModal
    spreadsheetData,\* App state spreadsheetData (null until a snapshot arrives)
    userSelections, \* App state userSelections
    activeUsers,    \* App state activeUsers
    session,        \* the session state of each client's current connection
    toRelay,        \* events emitted by each client, not yet handled by the relay
    toClient,       \* events sent to each client, not yet handled by it
    docCells,       \* the relay's cell map
    sessions,       \* the sessions registered with the relay
    applied,        \* the events of joined sessions the relay has applied, in order
    left,           \* the clients whose joined session has been disconnected
    ops,            \* number of user operations so far
    drops,          \* number of transport drops so far
    \* a range of the grid resolved from its two corners (SpecRange)
    selectedRange,  \* Spreadsheet state selectedRange: {start, end} or null
    rangeCells,     \* getCellRange(selectedRange.start, selectedRange.end)
    probeCell,      \* a cell of the grid
    probeInRange,   \* isCellInRange(probeCell, selectedRange)
    rangeValues,    \* getRangeValues("START:END", data) for the same corners
    \* the validator applied to a typed value (SpecValidate)
    vInput,         \* the value handed to validateValue
    vResult,        \* validateValue(vInput)
    vAgain,         \* validateValue(vResult.formattedValue)
    \* one client selecting, navigating and editing cells (SpecEdit)
    selectedCell,   \* Spreadsheet state selectedCell (and selectedCellRef)
    selectionStart, \* selectionStartRef.current
    editingCell,    \* Spreadsheet state editingCell (and editingCellRef), or no cell
    editValue,      \* state editValue of the Cell being edited
    validates,      \* the Cell component validates what it commits
    focus,          \* document.activeElement: the grid, the edit input or neither
    blurPending,    \* the cell whose edit input has lost focus, its blur event not yet handled
    timers,         \* the setTimeout callbacks not yet run
    navigatingWithTab, \* the cells whose isNavigatingWithTabRef.current is true
    handledByTab,   \* the cells whose editHandledByTabRef.current is true
    editOp,         \* the last handler run and its arguments
    \* parseCellRef applied to a typed reference (SpecRef)
    refInput,       \* the text handed to parseCellRef
    refResult,      \* parseCellRef(refInput)
    refParsed,      \* whether parseCellRef has been called
    \* an insert undone by a delete (SpecUndo)
    gridOrigin      \* data.cells before the insert

gridVars == <<gridCells, gridPrev, gridOp, gridEmit, gridSteps>>

formulaVars == <<fData, fInput, fFormula, fResult, fDisplay, fError>>

clientVars == <<connected, oncePending, showUserModal, spreadsheetData,
                userSelections, activeUsers, session>>

relayVars == <<docCells, sessions, applied, left>>

syncVars == <<connected, oncePending, showUserModal, spreadsheetData,
              userSelections, activeUsers, session, toRelay, toClient,
              docCells, sessions, applied, left, ops, drops>>

rangeVars == <<selectedRange, rangeCells, probeCell, probeInRange, rangeValues>>

validateVars == <<vInput, vResult, vAgain>>

editVars == <<selectedCell, selectionStart, editingCell, editValue, validates, focus, blurPending, timers, navigatingWithTab, handledByTab, editOp>>

refVars == <<refInput, refResult, refParsed>>

undoVars == <<gridOrigin>>

vars == <<gridCells, gridPrev, gridOp, gridEmit, gridSteps,
          fData, fInput, fFormula, fResult, fDisplay, fError,
          connected, oncePending, showUserModal, spreadsheetData,
          userSelections, activeUsers, session, toRelay, toClient,
          docCells, sessions, applied, left, ops, drops,
          selectedRange, rangeCells, probeCell, probeInRange, rangeValues,
          vInput, vResult, vAgain,
          selectedCell, selectionStart, editingCell, editValue, validates, focus, blurPending, timers, navigatingWithTab, handledByTab, editOp,
          refInput, refResult, refParsed,
          gridOrigin>>

----------------------------------------------------------------------------
(* The parts of the state a specification does not use stay as constructed *)

NoOp == [type |-> "none", index |-> 0, threw |-> FALSE]
NoRef == [text |-> <<>>, c |-> 0, r |-> 0]
NoInput == [fn |-> <<>>, start |-> NoRef, end |-> NoRef]
\* evaluateFormula's null result
NullResult == [null |-> TRUE, nan |-> FALSE, num |-> 0, den |-> 1]

GridIdle ==
    /\ gridCells = <<>> /\ gridPrev = <<>> /\ gridOp = NoOp
    /\ gridEmit = {} /\ gridSteps = 0

\* getFormulaError's null, and its messages: a text, and the function name
\* the message ends with
NoFormulaError == [null |-> TRUE, text |-> "", functionName |-> <<>>]
FormulaError(text, functionName) ==
    [null |-> FALSE, text |-> text, functionName |-> functionName]

FormulaIdle ==
    /\ fData = <<>> /\ fInput = NoInput /\ fFormula = <<>> /\ fResult = NullResult
    /\ fDisplay = <<>> /\ fError = NoFormulaError

\* the browsers that load the application
Clients == {"c1", "c2"}

\* useState(null) of spreadsheetData
NullData == [null |-> TRUE, cells |-> <<>>]

SyncIdle ==
    /\ connected = [c \in Clients |-> FALSE]
    /\ oncePending = [c \in Clients |-> FALSE]
    /\ showUserModal = [c \in Clients |-> TRUE]
    /\ spreadsheetData = [c \in Clients |-> NullData]
    /\ userSelections = [c \in Clients |-> <<>>]
    /\ activeUsers = [c \in Clients |-> <<>>]
    /\ session = [c \in Clients |-> "disconnected"]
    /\ toRelay = [c \in Clients |-> <<>>]
    /\ toClient = [c \in Clients |-> <<>>]
    /\ docCells = <<>> /\ sessions = {} /\ applied = <<>> /\ left = {}
    /\ ops = 0 /\ drops = 0

\* useState(null) of selectedRange
NullSelection == [null |-> TRUE, start |-> <<0, 0>>, end |-> <<0, 0>>]

RangeIdle ==
    /\ selectedRange = NullSelection /\ rangeCells = <<>> /\ probeCell = <<0, 0>>
    /\ probeInRange = FALSE /\ rangeValues = <<>>

\* no value typed, no validation result yet
NoValue == [type |-> "none", chars |-> <<>>]
NoValidation == [isValid |-> TRUE, detectedType |-> "none", expectedType |-> "none",
                 errors |-> <<>>, formattedValue |-> <<>>]

ValidateIdle ==
    /\ vInput = NoValue /\ vResult = NoValidation /\ vAgain = NoValidation

\* no handler has run
NoEditOp == [type |-> "none", cell |-> <<0, 0>>, value |-> <<>>]

EditIdle ==
    /\ selectedCell = <<65, 1>> /\ selectionStart = <<65, 1>>
    /\ editingCell = <<0, 0>> /\ editValue = <<>> /\ validates = FALSE
    /\ focus = "none" /\ blurPending = <<0, 0>> /\ timers = {}
    /\ navigatingWithTab = {} /\ handledByTab = {} /\ editOp = NoEditOp

\* the value JavaScript's null stands for in a result record
NullRef == [null |-> TRUE, col |-> 0, row |-> 0]

RefIdle ==
    /\ refInput = <<>> /\ refResult = NullRef /\ refParsed = FALSE

UndoIdle ==
    gridOrigin = <<>>

----------------------------------------------------------------------------
(* Grid geometry and cell ids                                              *)

COLUMNS == 26
ROWS == 100

\* Bounds of the model
MaxGridOps == 2
MaxInitCells == 2

CharA == 65
CharZ == 90

\* an empty JS object
EmptyCells == <<>>

\* String.fromCharCode(65 + index), as a char code
getColumnLabel(index) == CharA + index

\* `${getColumnLabel(col)}${row + 1}`
getCellId(row, col) == <<getColumnLabel(col), row + 1>>

\* cellId.match(/([A-Z]+)(\d+)/) is not null
cellIdMatches(cellId) == cellId[1] >= CharA /\ cellId[1] <= CharZ

\* parseCellId: only defined where the match succeeds (it throws otherwise)
parseCellId(cellId) == [col |-> cellId[1] - CharA, row |-> cellId[2] - 1]

\* the coordinate is inside [A..Z] x [1..100]
InGrid(cellId) ==
    /\ cellId[1] >= CharA /\ cellId[1] <= CharA + COLUMNS - 1
    /\ cellId[2] >= 1 /\ cellId[2] <= ROWS

\* a cell entry: handleCellEdit stores the raw string, the paste and
\* cell_updated handlers store an object with a value field
StrEntry(v) == [kind |-> "string", value |-> v]
ObjEntry(v) == [kind |-> "object", value |-> v]

\* { ...cells, ...updates }
Merge(cells, updates) ==
    [k \in DOMAIN cells \cup DOMAIN updates |->
        IF k \in DOMAIN updates THEN updates[k] ELSE cells[k]]

\* Object.entries(cells).forEach(...) reaches a key parseCellId throws on
Throws(cells) == \E k \in DOMAIN cells : ~cellIdMatches(k)

\* newCells built by a forEach that stores cells[k] under keyOf[k], skipping
\* the keys in dropped; a later store to the same key overwrites an earlier one
Remap(cells, dropped, keyOf) ==
    LET kept == DOMAIN cells \ dropped
    IN  [nk \in {keyOf[k] : k \in kept} |->
            cells[CHOOSE k \in kept : keyOf[k] = nk]]

----------------------------------------------------------------------------
(* Row and column operations on a cell map (Spreadsheet.js 685-816)        *)

\* insertRowAt: the new cell map
insertRowCells(cells, insertIndex) ==
    Remap(cells, {},
          [k \in DOMAIN cells |-> IF parseCellId(k).row >= insertIndex
                     THEN getCellId(parseCellId(k).row + 1, parseCellId(k).col)
                     ELSE k])

\* deleteRowAt: the new cell map
deleteRowCells(cells, rowIndex) ==
    Remap(cells, {k \in DOMAIN cells : parseCellId(k).row = rowIndex},
          [k \in DOMAIN cells |-> IF parseCellId(k).row > rowIndex
                     THEN getCellId(parseCellId(k).row - 1, parseCellId(k).col)
                     ELSE k])

\* insertColumnAt: the new cell map
insertColumnCells(cells, insertIndex) ==
    Remap(cells, {},
          [k \in DOMAIN cells |-> IF parseCellId(k).col >= insertIndex
                     THEN getCellId(parseCellId(k).row, parseCellId(k).col + 1)
                     ELSE k])

\* deleteColumnAt: the new cell map
deleteColumnCells(cells, colIndex) ==
    Remap(cells, {k \in DOMAIN cells : parseCellId(k).col = colIndex},
          [k \in DOMAIN cells |-> IF parseCellId(k).col > colIndex
                     THEN getCellId(parseCellId(k).row, parseCellId(k).col - 1)
                     ELSE k])

\* position === 'before' ? index : index + 1
insertIndexOf(index, position) == IF position = "before" THEN index ELSE index + 1

\* pasteSelection without the test cellRow < ROWS && cellCol < COLUMNS: every
\* value of the block is written
pasteUpdates_unbounded(block, targetCell) ==
    LET target == parseCellId(targetCell)
        offs == {rc \in (1..Len(block)) \X (1..Len(block[1])) :
                    /\ rc[2] <= Len(block[rc[1]])
                    /\ target.row + (rc[1] - 1) >= 0}
        idOf(rc) == getCellId(target.row + (rc[1] - 1), target.col + (rc[2] - 1))
    IN  [k \in {idOf(rc) : rc \in offs} |->
            StrEntry(LET rc == CHOOSE x \in offs : idOf(x) = k
                     IN  block[rc[1]][rc[2]])]

\* pasteSelection: the updates object for a clipboard block (a sequence of
\* rows, each a sequence of values) pasted at targetCell
pasteUpdates(block, targetCell) ==
    LET target == parseCellId(targetCell)
        offs == {rc \in (1..Len(block)) \X (1..Len(block[1])) :
                    /\ rc[2] <= Len(block[rc[1]])
                    /\ target.row + (rc[1] - 1) < ROWS
                    /\ target.col + (rc[2] - 1) < COLUMNS}
        idOf(rc) == getCellId(target.row + (rc[1] - 1), target.col + (rc[2] - 1))
    IN  [k \in {idOf(rc) : rc \in offs} |->
            StrEntry(LET rc == CHOOSE x \in offs : idOf(x) = k
                     IN  block[rc[1]][rc[2]])]

\* the messages a handler emits for an updates object, one per key
\* handlePasteInput: the updates object for the rows and columns of a pasted
\* text, by the same loop and the same test as pasteSelection; each update is
\* an object with the value
pasteInputUpdates(block, targetCell) ==
    [k \in DOMAIN pasteUpdates(block, targetCell) |->
        ObjEntry(pasteUpdates(block, targetCell)[k].value)]

updateMessages(updates) ==
    {[event |-> "cell_update", cell_id |-> k, value |-> updates[k].value] :
        k \in DOMAIN updates}

----------------------------------------------------------------------------
(* SpecGrid: one client's cell map under its own edit, paste and           *)
(* row/column handlers, starting from any small in-grid cell map.          *)

GridValues == {"x", "y"}

\* A1, A2, B1, Z1, A100
GridIds == {<<65, 1>>, <<65, 2>>, <<66, 1>>, <<90, 1>>, <<65, 100>>}

\* indices offered by the row and column headers' context menu
GridRowIndices == {0, 1, ROWS - 1}
GridColIndices == {0, 1, COLUMNS - 1}

GridBlocks == {<<<<"x", "y">>>>, <<<<"x">>, <<"y">>>>}

GridInit ==
    /\ gridCells \in UNION {[D -> {StrEntry(v) : v \in GridValues}] :
            D \in {S \in SUBSET GridIds : Cardinality(S) <= MaxInitCells}}
    /\ gridPrev = gridCells
    /\ gridOp = NoOp
    /\ gridEmit = {}
    /\ gridSteps = 0
    /\ FormulaIdle
    /\ SyncIdle
    /\ UndoIdle
    /\ RefIdle
    /\ EditIdle
    /\ ValidateIdle
    /\ RangeIdle

\* handleCellEdit(cellId, value)
GridCellEdit(cellId, value) ==
    /\ gridSteps < MaxGridOps
    /\ gridCells' = Merge(gridCells, [k \in {cellId} |-> StrEntry(value)])
    /\ gridPrev' = gridCells
    /\ gridOp' = [type |-> "edit", index |-> 0, threw |-> FALSE]
    /\ gridEmit' = {[event |-> "cell_update", cell_id |-> cellId, value |-> value]}
    /\ gridSteps' = gridSteps + 1
    /\ UNCHANGED formulaVars
    /\ UNCHANGED syncVars
    /\ UNCHANGED undoVars
    /\ UNCHANGED refVars
    /\ UNCHANGED editVars
    /\ UNCHANGED validateVars
    /\ UNCHANGED rangeVars

\* pasteSelection(targetCell) with a non-empty clipboard
GridPaste(block, targetCell) ==
    /\ gridSteps < MaxGridOps
    /\ gridCells' = Merge(gridCells, pasteUpdates(block, targetCell))
    /\ gridPrev' = gridCells
    /\ gridOp' = [type |-> "paste", index |-> 0, threw |-> FALSE,
                  block |-> block, target |-> targetCell]
    /\ gridEmit' = updateMessages(pasteUpdates(block, targetCell))
    /\ gridSteps' = gridSteps + 1
    /\ UNCHANGED formulaVars
    /\ UNCHANGED syncVars
    /\ UNCHANGED undoVars
    /\ UNCHANGED refVars
    /\ UNCHANGED editVars
    /\ UNCHANGED validateVars
    /\ UNCHANGED rangeVars

\* handlePasteInput(e) with the pasted text split into rows and columns, the
\* selected cell being targetCell; a text of one value is the single cell paste
GridPasteInput(block, targetCell) ==
    /\ gridSteps < MaxGridOps
    /\ gridCells' = Merge(gridCells, pasteInputUpdates(block, targetCell))
    /\ gridPrev' = gridCells
    /\ gridOp' = [type |-> "pasteinput", index |-> 0, threw |-> FALSE,
                  block |-> block, target |-> targetCell]
    /\ gridEmit' = updateMessages(pasteInputUpdates(block, targetCell))
    /\ gridSteps' = gridSteps + 1
    /\ UNCHANGED formulaVars
    /\ UNCHANGED syncVars
    /\ UNCHANGED undoVars
    /\ UNCHANGED refVars
    /\ UNCHANGED editVars
    /\ UNCHANGED validateVars
    /\ UNCHANGED rangeVars

\* a row/column handler: when the forEach throws, setData and socket.emit
\* are never reached
GridStructural(type, event, kind, index, newCells) ==
    /\ gridSteps < MaxGridOps
    /\ gridPrev' = gridCells
    /\ gridSteps' = gridSteps + 1
    /\ gridOp' = [type |-> type, index |-> index, threw |-> Throws(gridCells)]
    /\ IF Throws(gridCells)
       THEN /\ gridCells' = gridCells
            /\ gridEmit' = {}
       ELSE /\ gridCells' = newCells
            /\ gridEmit' = {[event |-> event, type |-> kind, index |-> index]}
    /\ UNCHANGED formulaVars
    /\ UNCHANGED syncVars
    /\ UNCHANGED undoVars
    /\ UNCHANGED refVars
    /\ UNCHANGED editVars
    /\ UNCHANGED validateVars
    /\ UNCHANGED rangeVars

\* insertRowAt(rowIndex, position)
GridInsertRowAt(rowIndex, position) ==
    GridStructural("insertRow", "row_operation", "insert",
                   insertIndexOf(rowIndex, position),
                   insertRowCells(gridCells, insertIndexOf(rowIndex, position)))

\* deleteRowAt(rowIndex)
GridDeleteRowAt(rowIndex) ==
    GridStructural("deleteRow", "row_operation", "delete", rowIndex,
                   deleteRowCells(gridCells, rowIndex))

\* insertColumnAt(colIndex, position)
GridInsertColumnAt(colIndex, position) ==
    GridStructural("insertColumn", "column_operation", "insert",
                   insertIndexOf(colIndex, position),
                   insertColumnCells(gridCells, insertIndexOf(colIndex, position)))

\* deleteColumnAt(colIndex)
GridDeleteColumnAt(colIndex) ==
    GridStructural("deleteColumn", "column_operation", "delete", colIndex,
                   deleteColumnCells(gridCells, colIndex))

GridNext ==
    \/ \E id \in GridIds, v \in GridValues : GridCellEdit(id, v)
    \/ \E b \in GridBlocks, id \in GridIds : GridPaste(b, id)
    \/ \E b \in GridBlocks \cup {<<<<"x">>>>}, id \in GridIds : GridPasteInput(b, id)
    \/ \E i \in GridRowIndices, p \in {"before", "after"} : GridInsertRowAt(i, p)
    \/ \E i \in GridRowIndices : GridDeleteRowAt(i)
    \/ \E i \in GridColIndices, p \in {"before", "after"} : GridInsertColumnAt(i, p)
    \/ \E i \in GridColIndices : GridDeleteColumnAt(i)



----------------------------------------------------------------------------
(* SpecUndo: a row or column inserted before an index and the row or       *)
(* column of that index deleted again, from any small in-grid cell map.    *)

UndoInit ==
    /\ gridCells \in UNION {[D -> {StrEntry(v) : v \in GridValues}] :
            D \in {S \in SUBSET GridIds : Cardinality(S) <= MaxInitCells}}
    /\ gridPrev = gridCells
    /\ gridOrigin = gridCells
    /\ gridOp = NoOp
    /\ gridEmit = {}
    /\ gridSteps = 0
    /\ FormulaIdle
    /\ SyncIdle
    /\ RefIdle
    /\ EditIdle
    /\ ValidateIdle
    /\ RangeIdle

\* insertRowAt(rowIndex, 'before') on the original cell map
UndoInsertRow(rowIndex) ==
    /\ gridOp = NoOp
    /\ GridInsertRowAt(rowIndex, "before")

\* deleteRowAt(rowIndex) for the index the row was inserted before
UndoDeleteRow ==
    /\ gridOp.type = "insertRow"
    /\ GridDeleteRowAt(gridOp.index)

\* insertColumnAt(colIndex, 'before') on the original cell map
UndoInsertColumn(colIndex) ==
    /\ gridOp = NoOp
    /\ GridInsertColumnAt(colIndex, "before")

\* deleteColumnAt(colIndex) for the index the column was inserted before
UndoDeleteColumn ==
    /\ gridOp.type = "insertColumn"
    /\ GridDeleteColumnAt(gridOp.index)

UndoNext ==
    \/ \E i \in GridRowIndices : UndoInsertRow(i)
    \/ UndoDeleteRow
    \/ \E i \in GridColIndices : UndoInsertColumn(i)
    \/ UndoDeleteColumn

----------------------------------------------------------------------------
(* Formula parsing and evaluation (formulaParser.js, src/unnamed/part_001) *)
(* Texts are sequences of one-character strings.                           *)

UpperLetters == <<"A", "B", "C", "D", "E", "F", "G", "H", "I", "J", "K", "L", "M",
                  "N", "O", "P", "Q", "R", "S", "T", "U", "V", "W", "X", "Y", "Z">>
LowerLetters == <<"a", "b", "c", "d", "e", "f", "g", "h", "i", "j", "k", "l", "m",
                  "n", "o", "p", "q", "r", "s", "t", "u", "v", "w", "x", "y", "z">>
DigitChars == <<"0", "1", "2", "3", "4", "5", "6", "7", "8", "9">>

IndexIn(seq, ch) == CHOOSE i \in 1..Len(seq) : seq[i] = ch
IsIn(seq, ch) == \E i \in 1..Len(seq) : seq[i] = ch

\* [A-Z], \d, \w
IsUpper(ch) == IsIn(UpperLetters, ch)
IsDigit(ch) == IsIn(DigitChars, ch)
IsWordChar(ch) == IsUpper(ch) \/ IsIn(LowerLetters, ch) \/ IsDigit(ch) \/ ch = "_"

\* charCodeAt(i) - 65 + 1 of a capital letter
LetterNumber(ch) == IndexIn(UpperLetters, ch)
DigitValue(ch) == IndexIn(DigitChars, ch) - 1

\* String.prototype.toUpperCase, one character
UpperChar(ch) == IF IsIn(LowerLetters, ch) THEN UpperLetters[IndexIn(LowerLetters, ch)] ELSE ch
toUpperCase(text) == [i \in 1..Len(text) |-> UpperChar(text[i])]

\* length of the longest prefix of text made of characters of the class
RECURSIVE PrefixLen(_, _)
PrefixLen(text, class) ==
    IF text = <<>> \/ ~IsIn(class, Head(text)) THEN 0
    ELSE 1 + PrefixLen(Tail(text), class)

\* parseInt of a text of digits
RECURSIVE DigitsValue(_)
DigitsValue(digits) ==
    IF digits = <<>> THEN 0
    ELSE 10 * DigitsValue(SubSeq(digits, 1, Len(digits) - 1))
         + DigitValue(digits[Len(digits)])

\* the column loop of parseCellRef: col = col * 26 + (charCode - 65 + 1)
RECURSIVE LettersValue(_)
LettersValue(letters) ==
    IF letters = <<>> THEN 0
    ELSE 26 * LettersValue(SubSeq(letters, 1, Len(letters) - 1))
         + LetterNumber(letters[Len(letters)])


\* parseCellRef: /^([A-Z]+)(\d+)$/, 0-based col and row, or null
parseCellRef(cellRef) ==
    LET n == PrefixLen(cellRef, UpperLetters)
        rowStr == SubSeq(cellRef, n + 1, Len(cellRef))
    IN  IF n >= 1 /\ Len(rowStr) >= 1 /\ PrefixLen(rowStr, DigitChars) = Len(rowStr)
        THEN [null |-> FALSE,
              col |-> LettersValue(SubSeq(cellRef, 1, n)) - 1,
              row |-> DigitsValue(rowStr) - 1]
        ELSE NullRef

\* String.prototype.split(sep) for a one-character separator
RECURSIVE split(_, _)
split(text, sep) ==
    IF ~IsIn(text, sep) THEN <<text>>
    ELSE LET i == CHOOSE j \in 1..Len(text) :
                     text[j] = sep /\ \A h \in 1..(j - 1) : text[h] # sep
         IN  <<SubSeq(text, 1, i - 1)>> \o split(SubSeq(text, i + 1, Len(text)), sep)

NullRange == [null |-> TRUE, start |-> NullRef, end |-> NullRef]

\* parseCellRange: "A1:B10" to {start, end}, or null
parseCellRange(rangeStr) ==
    LET parts == split(rangeStr, ":")
    IN  IF Len(parts) # 2 THEN NullRange
        ELSE IF parseCellRef(parts[1]).null \/ parseCellRef(parts[2]).null THEN NullRange
        ELSE [null |-> FALSE, start |-> parseCellRef(parts[1]), end |-> parseCellRef(parts[2])]

\* Number.prototype.toString of a non-negative integer
RECURSIVE DecimalDigits(_)
DecimalDigits(n) ==
    IF n < 10 THEN <<DigitChars[n + 1]>>
    ELSE DecimalDigits(n \div 10) \o <<DigitChars[(n % 10) + 1]>>

\* the while loop of formulaParser's getCellId, colNum 1-based
RECURSIVE ColumnLetters(_)
ColumnLetters(colNum) ==
    IF colNum <= 0 THEN <<>>
    ELSE ColumnLetters((colNum - 1) \div 26) \o <<UpperLetters[((colNum - 1) % 26) + 1]>>

\* formulaParser's getCellId(row, col)
formulaCellId(row, col) == ColumnLetters(col + 1) \o DecimalDigits(row + 1)


\* a JavaScript number: NaN, or the fraction num/den in lowest terms
NaN == [nan |-> TRUE, num |-> 0, den |-> 1]
Num(n) == [nan |-> FALSE, num |-> n, den |-> 1]

RECURSIVE Gcd(_, _)
Gcd(a, b) == IF b = 0 THEN a ELSE Gcd(b, a % b)
Abs(n) == IF n < 0 THEN 0 - n ELSE n

\* a / b of two JavaScript numbers, b an array length > 0
Divide(a, b) ==
    IF a.nan THEN NaN
    ELSE LET g == Gcd(Abs(a.num), b)
         IN  [nan |-> FALSE, num |-> a.num \div g, den |-> b \div g]

\* sum + val
Plus(a, b) == IF a.nan \/ b.nan THEN NaN ELSE Num(a.num + b.num)

\* parseFloat on texts without ".", exponent, leading blanks or "Infinity":
\* an optional sign and the longest run of digits after it; NaN without digits
parseFloat(text) ==
    LET neg == text # <<>> /\ Head(text) = "-"
        pos == text # <<>> /\ Head(text) = "+"
        body == IF neg \/ pos THEN Tail(text) ELSE text
        n == PrefixLen(body, DigitChars)
    IN  IF n = 0 THEN NaN
        ELSE Num(IF neg THEN 0 - DigitsValue(SubSeq(body, 1, n))
                        ELSE DigitsValue(SubSeq(body, 1, n)))

\* the date texts of the model and new Date(text).getTime() for each, counted
\* in days (the code's milliseconds divided by 86400000) so that sums stay
\* inside TLC's integers; an unparsable text gives NaN
Date20240101 == <<"2", "0", "2", "4", "-", "0", "1", "-", "0", "1">>
Date20240102 == <<"2", "0", "2", "4", "-", "0", "1", "-", "0", "2">>
DateInvalid == <<"3", "2", "/", "1", "2", "/", "2", "0", "2", "4">>
dateGetTime(text) ==
    CASE text = Date20240101 -> Num(19723)
      [] text = Date20240102 -> Num(19724)
      [] text = DateInvalid -> NaN

\* what one cell of the range adds to values (getRangeValues, loop body)
cellValues(cellId, cells) ==
    IF cellId \notin DOMAIN cells THEN <<>>
    ELSE LET cellData == cells[cellId]
         IN  IF cellData.data_type = "number" THEN <<parseFloat(cellData.value)>>
             ELSE IF cellData.data_type = "date"
                  THEN IF dateGetTime(cellData.value).nan THEN <<>>
                       ELSE <<dateGetTime(cellData.value)>>
             ELSE IF cellData.data_type = "text" /\ ~parseFloat(cellData.value).nan
                  THEN <<parseFloat(cellData.value)>>
             ELSE <<>>

Min(a, b) == IF a < b THEN a ELSE b
Max(a, b) == IF a > b THEN a ELSE b

\* the two nested for loops of getRangeValues, from (row, col) onwards
RECURSIVE rangeLoop(_, _, _, _, _, _)
rangeLoop(row, col, minCol, maxRow, maxCol, cells) ==
    IF row > maxRow THEN <<>>
    ELSE IF col > maxCol THEN rangeLoop(row + 1, minCol, minCol, maxRow, maxCol, cells)
    ELSE cellValues(formulaCellId(row, col), cells)
         \o rangeLoop(row, col + 1, minCol, maxRow, maxCol, cells)

\* getRangeValues without Math.min / Math.max on the corners (as the test
\* suite's mockFormulaParser loops): a range typed end-first is empty
getRangeValues_unordered(rangeStr, cells) ==
    LET range == parseCellRange(rangeStr)
    IN  IF range.null THEN <<>>
        ELSE rangeLoop(range.start.row, range.start.col, range.start.col,
                       range.end.row, range.end.col, cells)

\* getRangeValues(rangeStr, data)
getRangeValues(rangeStr, cells) ==
    LET range == parseCellRange(rangeStr)
    IN  IF range.null THEN <<>>
        ELSE rangeLoop(Min(range.start.row, range.end.row),
                       Min(range.start.col, range.end.col),
                       Min(range.start.col, range.end.col),
                       Max(range.start.row, range.end.row),
                       Max(range.start.col, range.end.col), cells)

\* String.prototype.trim for blanks
RECURSIVE trim(_)
trim(text) ==
    IF text = <<>> THEN text
    ELSE IF Head(text) = " " THEN trim(Tail(text))
    ELSE IF text[Len(text)] = " " THEN trim(SubSeq(text, 1, Len(text) - 1))
    ELSE text

WordChars == UpperLetters \o LowerLetters \o DigitChars \o <<"_">>

NullFormula == [null |-> TRUE, functionName |-> <<>>, args |-> <<>>]

\* parseFormula: /^=(\w+)\((.*)\)$/, the name upper-cased, the arguments
\* split on "," and trimmed; null when the text does not match
parseFormula(formula) ==
    IF formula = <<>> \/ Head(formula) # "=" THEN NullFormula
    ELSE LET n == PrefixLen(Tail(formula), WordChars)
             len == Len(formula)
         IN  IF n >= 1 /\ len >= n + 3 /\ formula[n + 2] = "(" /\ formula[len] = ")"
             THEN LET parts == split(SubSeq(formula, n + 3, len - 1), ",")
                  IN  [null |-> FALSE,
                       functionName |-> toUpperCase(SubSeq(formula, 2, n + 1)),
                       args |-> [i \in 1..Len(parts) |-> trim(parts[i])]]
             ELSE NullFormula

\* values.reduce((sum, val) => sum + val, 0)
RECURSIVE reduceSum(_)
reduceSum(values) ==
    IF values = <<>> THEN Num(0)
    ELSE Plus(reduceSum(SubSeq(values, 1, Len(values) - 1)), values[Len(values)])

TextSUM == <<"S", "U", "M">>
TextAVERAGE == <<"A", "V", "E", "R", "A", "G", "E">>
TextCOUNT == <<"C", "O", "U", "N", "T">>

Result(number) == [null |-> FALSE, nan |-> number.nan, num |-> number.num, den |-> number.den]

\* evaluateFormula(formula, data)
evaluateFormula(formula, cells) ==
    LET parsed == parseFormula(formula)
    IN  IF parsed.null THEN NullResult
        ELSE IF parsed.functionName \notin {TextSUM, TextAVERAGE, TextCOUNT} THEN NullResult
        ELSE IF Len(parsed.args) # 1 THEN NullResult
        ELSE LET values == getRangeValues(parsed.args[1], cells)
             IN  IF parsed.functionName = TextSUM THEN Result(reduceSum(values))
                 ELSE IF parsed.functionName = TextCOUNT THEN Result(Num(Len(values)))
                 ELSE IF Len(values) = 0 THEN Result(Num(0))
                 ELSE Result(Divide(reduceSum(values), Len(values)))

TextERROR == <<"#", "E", "R", "R", "O", "R", "!">>
TextNaN == <<"N", "a", "N">>

\* two digits after the point
TwoDigits(n) == <<DigitChars[(n \div 10) + 1], DigitChars[(n % 10) + 1]>>

\* result.toFixed(2) of a fraction: the hundredths nearest to it
toFixed2(number) ==
    LET hundredths == (Abs(number.num) * 200 + number.den) \div (2 * number.den)
    IN  (IF number.num < 0 /\ hundredths > 0 THEN <<"-">> ELSE <<>>)
        \o DecimalDigits(hundredths \div 100) \o <<".">> \o TwoDigits(hundredths % 100)

\* result.toString() of an integer
integerToString(n) == (IF n < 0 THEN <<"-">> ELSE <<>>) \o DecimalDigits(Abs(n))

\* getFormulaDisplayValue(formula, data)
getFormulaDisplayValue(formula, cells) ==
    LET result == evaluateFormula(formula, cells)
    IN  IF result.null THEN TextERROR
        ELSE IF result.nan THEN TextNaN
        ELSE IF result.den = 1 THEN integerToString(result.num)
        ELSE toFixed2(result)

\* isFormula(value) for a string
isFormula(value) == value # <<>> /\ Head(value) = "="

ErrorSyntax == "Invalid formula syntax"
ErrorUnsupported == "Unsupported function: "
ErrorArguments == " requires exactly 1 argument"
ErrorRange == "Invalid cell range"

\* the checks of getFormulaError on a parsed formula
parsedFormulaError(parsed) ==
    IF parsed.functionName \notin {TextSUM, TextAVERAGE, TextCOUNT}
    THEN FormulaError(ErrorUnsupported, parsed.functionName)
    ELSE IF Len(parsed.args) # 1
    THEN FormulaError(ErrorArguments, parsed.functionName)
    ELSE IF parseCellRange(parsed.args[1]).null THEN FormulaError(ErrorRange, <<>>)
    ELSE NoFormulaError

\* getFormulaError(formula, data)
getFormulaError(formula, cells) ==
    IF ~isFormula(formula) THEN NoFormulaError
    ELSE IF parseFormula(formula).null THEN FormulaError(ErrorSyntax, <<>>)
    ELSE parsedFormulaError(parseFormula(formula))

----------------------------------------------------------------------------
(* SpecRef: parseCellRef applied to a typed text                           *)

\* the longest text typed, in characters
MaxRefLength == 3

\* the characters a reference is typed from
RefChars == {"A", "Z", "a", "0", "1", "9", "-", ":"}

\* texts of at most n characters
RECURSIVE RefTexts(_)
RefTexts(n) ==
    IF n = 0 THEN {<<>>}
    ELSE RefTexts(n - 1) \cup {t \o <<ch>> : t \in RefTexts(n - 1), ch \in RefChars}

RefInit ==
    /\ refInput \in RefTexts(MaxRefLength)
    /\ refResult = NullRef
    /\ refParsed = FALSE
    /\ GridIdle
    /\ FormulaIdle
    /\ SyncIdle
    /\ UndoIdle
    /\ ValidateIdle
    /\ EditIdle
    /\ RangeIdle

\* parseCellRef(cellRef)
ParseRef ==
    /\ ~refParsed
    /\ refParsed' = TRUE
    /\ refResult' = parseCellRef(refInput)
    /\ UNCHANGED refInput
    /\ UNCHANGED gridVars
    /\ UNCHANGED formulaVars
    /\ UNCHANGED syncVars
    /\ UNCHANGED undoVars
    /\ UNCHANGED validateVars
    /\ UNCHANGED editVars
    /\ UNCHANGED rangeVars

RefNext == ParseRef

----------------------------------------------------------------------------
(* SpecFormula: evaluateFormula applied to formulas typed from a function  *)
(* name and two range corners, over small documents.                       *)

MaxOverrides == 2

\* a cell object as the relay sends it: {value, data_type}
CellData(value, type) == [value |-> value, data_type |-> type]

\* names of the cells of columns A, B and rows 1..10, written out
ColName == <<"A", "B">>
RowName == <<<<"1">>, <<"2">>, <<"3">>, <<"4">>, <<"5">>, <<"6">>, <<"7">>,
             <<"8">>, <<"9">>, <<"1", "0">>>>
IdAt(c, r) == <<ColName[c]>> \o RowName[r]

IdxOfRow(k) == CHOOSE r \in 1..10 : IdAt(1, r) = k

\* createFormulaTestData: A1..A10 hold "1".."10" as numbers
Doc1to10 == [k \in {IdAt(1, r) : r \in 1..10} |-> CellData(RowName[IdxOfRow(k)], "number")]

EmptyDoc == <<>>

FormulaEntries ==
    {CellData(<<"3">>, "number"), CellData(<<"-", "2">>, "number"),
     CellData(<<"5", "a">>, "text"), CellData(<<"H", "i">>, "text"),
     CellData(Date20240101, "date"), CellData(DateInvalid, "date"),
     CellData(<<>>, "empty")}

OverrideIds == {IdAt(1, 1), IdAt(1, 2), IdAt(2, 1)}

FormulaDocs ==
    {Merge(base, over) :
        base \in {EmptyDoc, Doc1to10},
        over \in UNION {[D -> FormulaEntries] :
                    D \in {S \in SUBSET OverrideIds : Cardinality(S) <= MaxOverrides}}}

\* the corners a formula is typed from: the text and the column and row
\* numbers (1-based) it names
InputRefs ==
    {[text |-> IdAt(1, 1), c |-> 1, r |-> 1], [text |-> IdAt(1, 2), c |-> 1, r |-> 2],
     [text |-> IdAt(2, 1), c |-> 2, r |-> 1], [text |-> IdAt(2, 2), c |-> 2, r |-> 2],
     [text |-> IdAt(1, 10), c |-> 1, r |-> 10]}

FunctionTexts == {TextSUM, TextAVERAGE, TextCOUNT, <<"s", "u", "m">>}

\* "=FN(START:END)"
FormulaText(fn, start, end) ==
    <<"=">> \o fn \o <<"(">> \o start.text \o <<":">> \o end.text \o <<")">>

FormulaInit ==
    /\ fData \in FormulaDocs
    /\ fInput = NoInput
    /\ fFormula = <<>>
    /\ fResult = NullResult
    /\ fDisplay = <<>>
    /\ fError = NoFormulaError
    /\ GridIdle
    /\ SyncIdle
    /\ UndoIdle
    /\ RefIdle
    /\ EditIdle
    /\ ValidateIdle
    /\ RangeIdle

\* evaluateFormula(formula, data) for a typed formula, once per document
FEvaluate(fn, start, end) ==
    /\ fFormula = <<>>
    /\ fInput' = [fn |-> fn, start |-> start, end |-> end]
    /\ fFormula' = FormulaText(fn, start, end)
    /\ fResult' = evaluateFormula(FormulaText(fn, start, end), fData)
    /\ fDisplay' = getFormulaDisplayValue(FormulaText(fn, start, end), fData)
    /\ fError' = getFormulaError(FormulaText(fn, start, end), fData)
    /\ UNCHANGED fData
    /\ UNCHANGED gridVars
    /\ UNCHANGED syncVars
    /\ UNCHANGED undoVars
    /\ UNCHANGED refVars
    /\ UNCHANGED editVars
    /\ UNCHANGED validateVars
    /\ UNCHANGED rangeVars

FormulaNext ==
    \E fn \in FunctionTexts, start \in InputRefs, end \in InputRefs :
        FEvaluate(fn, start, end)

----------------------------------------------------------------------------
(* SpecErrors: evaluateFormula and getFormulaDisplayValue applied to       *)
(* formulas that are not FN(START:END), over the same documents.           *)

\* =SUM(A1:A2: no closing parenthesis
FormulaInvalidSyntax == <<"=", "S", "U", "M", "(", "A", "1", ":", "A", "2">>
\* =SUM: no argument list
FormulaNoParens == <<"=", "S", "U", "M">>
\* =MAX(A1:A2): unsupported function
FormulaUnsupported == <<"=", "M", "A", "X", "(", "A", "1", ":", "A", "2", ")">>
\* =SUM(A1:A2,B1:B2): two arguments
FormulaTwoArgs == <<"=", "S", "U", "M", "(", "A", "1", ":", "A", "2", ",", "B", "1", ":", "B", "2", ")">>
\* =COUNT(): no argument
FormulaNoArgs == <<"=", "C", "O", "U", "N", "T", "(", ")">>
\* =SUM(A1): a single cell reference
FormulaSingleCell == <<"=", "S", "U", "M", "(", "A", "1", ")">>
\* =AVERAGE(A1): a single cell reference
FormulaSingleCellAverage == <<"=", "A", "V", "E", "R", "A", "G", "E", "(", "A", "1", ")">>
\* =SUM(A1:): a range without its end
FormulaHalfRange == <<"=", "S", "U", "M", "(", "A", "1", ":", ")">>

\* =SUM(AA1:AA2): column AA is the 27th
FormulaColumnAA == <<"=", "S", "U", "M", "(", "A", "A", "1", ":", "A", "A", "2", ")">>
\* =COUNT(A101:A102): row 101
FormulaRow101 ==
    <<"=", "C", "O", "U", "N", "T", "(", "A", "1", "0", "1", ":", "A", "1", "0", "2", ")">>
\* =AVERAGE(Z100:AA101): from the last cell of the grid to outside it
FormulaAcrossEdge ==
    <<"=", "A", "V", "E", "R", "A", "G", "E", "(", "Z", "1", "0", "0", ":", "A", "A", "1", "0", "1", ")">>
\* =SUM(A1:A2): a range inside the grid
FormulaInGrid == <<"=", "S", "U", "M", "(", "A", "1", ":", "A", "2", ")">>
\* SUM(A1:A2): no equals sign
FormulaNoEquals == <<"S", "U", "M", "(", "A", "1", ":", "A", "2", ")">>

\* formulas with one range, inside the grid or not, and a text that is no
\* formula
RangeFormulas ==
    {FormulaColumnAA, FormulaRow101, FormulaAcrossEdge, FormulaInGrid, FormulaNoEquals}

\* formulas whose argument list is missing, unsupported, or not one range
ErrorFormulas ==
    {FormulaInvalidSyntax, FormulaNoParens, FormulaUnsupported, FormulaTwoArgs, FormulaNoArgs,
     FormulaSingleCell, FormulaSingleCellAverage, FormulaHalfRange}

ErrorsInit ==
    /\ fData \in FormulaDocs
    /\ fInput = NoInput
    /\ fFormula = <<>>
    /\ fResult = NullResult
    /\ fDisplay = <<>>
    /\ fError = NoFormulaError
    /\ GridIdle
    /\ SyncIdle
    /\ UndoIdle
    /\ RefIdle
    /\ EditIdle
    /\ ValidateIdle
    /\ RangeIdle

\* the cell shows getFormulaDisplayValue(formula, data), once per document
FDisplayError(formula) ==
    /\ fFormula = <<>>
    /\ fFormula' = formula
    /\ fResult' = evaluateFormula(formula, fData)
    /\ fDisplay' = getFormulaDisplayValue(formula, fData)
    /\ fError' = getFormulaError(formula, fData)
    /\ UNCHANGED <<fData, fInput>>
    /\ UNCHANGED gridVars
    /\ UNCHANGED syncVars
    /\ UNCHANGED undoVars
    /\ UNCHANGED refVars
    /\ UNCHANGED editVars
    /\ UNCHANGED validateVars
    /\ UNCHANGED rangeVars

ErrorsNext == \E formula \in ErrorFormulas \cup RangeFormulas : FDisplayError(formula)

----------------------------------------------------------------------------
(* SpecRange: a range resolved from two corners, by the grid's             *)
(* getCellRange / isCellInRange and by the formula parser's getRangeValues *)

\* the corners and the probe lie in rows 0..MaxRangeRow, columns 0..MaxRangeCol
MaxRangeRow == 2
MaxRangeCol == 2

\* getCellRange without Math.min / Math.max on the corners
getCellRange_unordered(startCell, endCell) ==
    LET start == parseCellId(startCell)
        end == parseCellId(endCell)
    IN  [i \in 1..(end.row - start.row + 1) |->
            [j \in 1..(end.col - start.col + 1) |->
                getCellId(start.row + i - 1, start.col + j - 1)]]

\* getCellRange(startCell, endCell): the rows of cell ids between the corners
getCellRange(startCell, endCell) ==
    LET start == parseCellId(startCell)
        end == parseCellId(endCell)
        minRow == Min(start.row, end.row)
        maxRow == Max(start.row, end.row)
        minCol == Min(start.col, end.col)
        maxCol == Max(start.col, end.col)
    IN  [i \in 1..(maxRow - minRow + 1) |->
            [j \in 1..(maxCol - minCol + 1) |-> getCellId(minRow + i - 1, minCol + j - 1)]]

\* isCellInRange(cellId, range)
isCellInRange(cellId, range) ==
    IF range.null THEN FALSE
    ELSE LET cell == parseCellId(cellId)
             start == parseCellId(range.start)
             end == parseCellId(range.end)
         IN  /\ cell.row >= Min(start.row, end.row) /\ cell.row <= Max(start.row, end.row)
             /\ cell.col >= Min(start.col, end.col) /\ cell.col <= Max(start.col, end.col)

\* the number a cell of the range document holds: a different one in each cell
RangeNumber(row, col) == row * COLUMNS + col + 1

RangeCoords == (0..MaxRangeRow) \X (0..MaxRangeCol)

\* a document with a number in every cell the corners can span
RangeDoc ==
    [k \in {formulaCellId(rc[1], rc[2]) : rc \in RangeCoords} |->
        LET rc == CHOOSE x \in RangeCoords : formulaCellId(x[1], x[2]) = k
        IN  CellData(DecimalDigits(RangeNumber(rc[1], rc[2])), "number")]

\* "START:END" as typed into a formula
RangeText(a, b) == formulaCellId(a[1], a[2]) \o <<":">> \o formulaCellId(b[1], b[2])

RangeInit ==
    /\ selectedRange = NullSelection
    /\ rangeCells = <<>>
    /\ probeCell = <<0, 0>>
    /\ probeInRange = FALSE
    /\ rangeValues = <<>>
    /\ fData = RangeDoc
    /\ fInput = NoInput /\ fFormula = <<>> /\ fResult = NullResult /\ fDisplay = <<>>
    /\ fError = NoFormulaError
    /\ GridIdle
    /\ SyncIdle
    /\ UndoIdle
    /\ RefIdle
    /\ EditIdle
    /\ ValidateIdle

\* the user drags from corner a to corner b; the grid asks for each cell
\* whether it is in the range; a formula names the same corners
ResolveRange(a, b, c) ==
    /\ selectedRange.null
    /\ selectedRange' = [null |-> FALSE, start |-> getCellId(a[1], a[2]),
                         end |-> getCellId(b[1], b[2])]
    /\ rangeCells' = getCellRange(getCellId(a[1], a[2]), getCellId(b[1], b[2]))
    /\ probeCell' = getCellId(c[1], c[2])
    /\ probeInRange' = isCellInRange(getCellId(c[1], c[2]), selectedRange')
    /\ rangeValues' = getRangeValues(RangeText(a, b), fData)
    /\ UNCHANGED formulaVars
    /\ UNCHANGED gridVars
    /\ UNCHANGED syncVars
    /\ UNCHANGED undoVars
    /\ UNCHANGED refVars
    /\ UNCHANGED editVars
    /\ UNCHANGED validateVars

RangeNext == \E a \in RangeCoords, b \in RangeCoords, c \in RangeCoords : ResolveRange(a, b, c)

----------------------------------------------------------------------------
(* Data type detection and validation (dataValidation.js)                  *)

\* JavaScript values handed to the validator: a string, null or undefined
Str(chars) == [type |-> "string", chars |-> chars]
JsNull == [type |-> "null", chars |-> <<>>]
JsUndefined == [type |-> "undefined", chars |-> <<>>]

\* !value of a string, null or undefined
Falsy(value) == value.type # "string" \/ value.chars = <<>>

\* String(value) of a string
String(value) == value.chars

\* /^\d{lo,hi}$/
IsDigits(text, lo, hi) ==
    /\ Len(text) >= lo /\ Len(text) <= hi
    /\ \A i \in 1..Len(text) : IsDigit(text[i])

\* one of the regular expressions of dateFormats: three runs of digits of the
\* given lengths, separated by sep
dateFormat(text, sep, a, b, c) ==
    LET parts == split(text, sep)
    IN  /\ Len(parts) = 3
        /\ IsDigits(parts[1], a[1], a[2])
        /\ IsDigits(parts[2], b[1], b[2])
        /\ IsDigits(parts[3], c[1], c[2])

\* dateFormats.some(format => format.test(dateString.trim()))
formatMatches(text) ==
    \/ dateFormat(trim(text), "/", <<1, 2>>, <<1, 2>>, <<4, 4>>)
    \/ dateFormat(trim(text), "-", <<1, 2>>, <<1, 2>>, <<4, 4>>)
    \/ dateFormat(trim(text), "-", <<4, 4>>, <<1, 2>>, <<1, 2>>)
    \/ dateFormat(trim(text), "/", <<1, 2>>, <<1, 2>>, <<2, 2>>)

\* looksLikeDate(dateString) of a string
looksLikeDate(text) == text # <<>> /\ formatMatches(text)

\* new Date(text) of a text that matches one of dateFormats, as the browser's
\* date parser reads three numbers: year-month-day when the first number is
\* no day of a month, month-day-year otherwise; a year below 50 is in the
\* 2000s, a year from 50 to 99 in the 1900s; the month must be 1..12 and the
\* day 1..31, otherwise the date is invalid
InvalidDate == [valid |-> FALSE, year |-> 0, month |-> 0, day |-> 0]
IsDay(n) == n >= 1 /\ n <= 31
IsMonth(n) == n >= 1 /\ n <= 12
FullYear(n) == IF n <= 49 THEN n + 2000 ELSE IF n <= 99 THEN n + 1900 ELSE n
dayMonthYear(year, month, day) ==
    IF IsMonth(month) /\ IsDay(day)
    THEN [valid |-> TRUE, year |-> FullYear(year), month |-> month, day |-> day]
    ELSE InvalidDate
threeNumbers(n1, n2, n3) ==
    IF ~IsDay(n1) THEN dayMonthYear(n1, n2, n3) ELSE dayMonthYear(n3, n1, n2)
dateParts(parts) ==
    threeNumbers(DigitsValue(parts[1]), DigitsValue(parts[2]), DigitsValue(parts[3]))
newDate(text) ==
    IF IsIn(text, "/") THEN dateParts(split(text, "/")) ELSE dateParts(split(text, "-"))

\* isValidDate(dateString) of a string
isValidDate(text) ==
    IF text = <<>> THEN FALSE
    ELSE IF ~formatMatches(text) THEN FALSE
    ELSE newDate(text).valid

\* date.toLocaleDateString() in the en-US locale: month/day/year
toLocaleDateString(date) ==
    DecimalDigits(date.month) \o <<"/">> \o DecimalDigits(date.day)
        \o <<"/">> \o DecimalDigits(date.year)

\* the match of /^-?(?:\d+\.?\d*|\.\d+)(?:[eE][+-]?\d+)?$/ against a text:
\* whether it matches, and the sign, the digits before and after the point
\* and the exponent it found. The exponent part (?:[eE][+-]?\d+)?$
matchExponent(neg, int, hasDot, frac, rest) ==
    LET hasExp == rest # <<>> /\ (Head(rest) = "e" \/ Head(rest) = "E")
        afterE == IF hasExp THEN Tail(rest) ELSE <<>>
        signed == afterE # <<>> /\ (Head(afterE) = "-" \/ Head(afterE) = "+")
        expDigits == IF signed THEN Tail(afterE) ELSE afterE
        matches == /\ (int # <<>> \/ (hasDot /\ frac # <<>>))
                   /\ (rest = <<>> \/ (hasExp /\ IsDigits(expDigits, 1, Len(expDigits))))
    IN  [matches |-> matches,
         neg |-> neg,
         int |-> int,
         frac |-> frac,
         exp |-> IF ~hasExp \/ ~matches THEN 0
                 ELSE IF Head(afterE) = "-" THEN 0 - DigitsValue(expDigits)
                 ELSE DigitsValue(expDigits)]

\* the part after the digits before the point: \.?\d*
matchFraction(neg, int, afterInt) ==
    LET hasDot == afterInt # <<>> /\ Head(afterInt) = "."
        afterDot == IF hasDot THEN Tail(afterInt) ELSE afterInt
        nf == IF hasDot THEN PrefixLen(afterDot, DigitChars) ELSE 0
    IN  matchExponent(neg, int, hasDot, SubSeq(afterDot, 1, nf),
                      SubSeq(afterDot, nf + 1, Len(afterDot)))

\* the digits before the point: \d+, or none before \.\d+
matchMantissa(neg, body) ==
    matchFraction(neg, SubSeq(body, 1, PrefixLen(body, DigitChars)),
                  SubSeq(body, PrefixLen(body, DigitChars) + 1, Len(body)))

\* the sign: -?
numberMatch(text) ==
    IF text # <<>> /\ Head(text) = "-"
    THEN matchMantissa(TRUE, Tail(text))
    ELSE matchMantissa(FALSE, text)

\* isValidNumber(numberString) of a string; parseFloat of a text the regular
\* expression matches is never NaN
isValidNumber(text) ==
    IF text = <<>> THEN FALSE
    ELSE IF trim(text) = <<>> THEN FALSE
    ELSE numberMatch(trim(text)).matches

\* the decimal exponents a double holds: a number of 1e309 or more is
\* Infinity, a number below 1e-324 is 0
MaxExponent == 308
MinExponent == 0 - 324

TextInfinity == <<"I", "n", "f", "i", "n", "i", "t", "y">>

RECURSIVE Zeros(_)
Zeros(n) == IF n <= 0 THEN <<>> ELSE <<"0">> \o Zeros(n - 1)

RECURSIVE dropTrailingZeros(_)
dropTrailingZeros(digits) ==
    IF digits # <<>> /\ digits[Len(digits)] = "0"
    THEN dropTrailingZeros(SubSeq(digits, 1, Len(digits) - 1))
    ELSE digits

\* Number.prototype.toString of the number 0.d1...dk * 10^n, d1 and dk not 0:
\* printed in full when 10^-7 < number < 10^21, with an exponent otherwise
formatSignificant(neg, digits, n) ==
    IF digits = <<>> \/ n - 1 < MinExponent THEN <<"0">>
    ELSE (IF neg THEN <<"-">> ELSE <<>>) \o
         (IF n - 1 > MaxExponent THEN TextInfinity
          ELSE IF Len(digits) <= n /\ n <= 21 THEN digits \o Zeros(n - Len(digits))
          ELSE IF 0 < n /\ n <= 21
              THEN SubSeq(digits, 1, n) \o <<".">> \o SubSeq(digits, n + 1, Len(digits))
          ELSE IF 0 - 6 < n /\ n <= 0 THEN <<"0", ".">> \o Zeros(0 - n) \o digits
          ELSE <<digits[1]>>
               \o (IF Len(digits) = 1 THEN <<>>
                   ELSE <<".">> \o SubSeq(digits, 2, Len(digits)))
               \o <<"e">> \o (IF n - 1 < 0 THEN <<"-">> ELSE <<"+">>)
               \o DecimalDigits(Abs(n - 1)))

\* the digits of the mantissa without their leading and trailing zeros, and
\* the place of the point before the first digit left
formatDigits(neg, all, point) ==
    formatSignificant(neg,
        dropTrailingZeros(SubSeq(all, PrefixLen(all, <<"0">>) + 1, Len(all))),
        point - PrefixLen(all, <<"0">>))

formatNumber(m) == formatDigits(m.neg, m.int \o m.frac, Len(m.int) + m.exp)

\* parseFloat(stringValue).toString() of a text isValidNumber accepts, for
\* texts of at most 15 significant digits
numberToString(text) == formatNumber(numberMatch(text))

\* detectDataType(value), without its fall through to text: a value that is
\* empty, no number and no date has no type
detectDataType_nodefault(value) ==
    IF Falsy(value) \/ trim(value.chars) = <<>> THEN "empty"
    ELSE IF isValidNumber(trim(String(value))) THEN "number"
    ELSE IF looksLikeDate(trim(String(value))) THEN "date"
    ELSE "none"

\* detectDataType(value)
detectDataType(value) ==
    IF Falsy(value) \/ trim(value.chars) = <<>> THEN "empty"
    ELSE IF isValidNumber(trim(String(value))) THEN "number"
    ELSE IF looksLikeDate(trim(String(value))) THEN "date"
    ELSE "text"

\* the longest text the validator accepts
MaxTextLength == 1000

ErrorNumber == "Invalid number format"
ErrorDate == "Invalid date format. Use MM/DD/YYYY, YYYY-MM-DD, or similar"
ErrorText == "Text too long (max 1000 characters)"

\* the result object of validateValue, with the fields a branch changes
validationResult(detectedType, isValid, errors, formattedValue) ==
    [isValid |-> isValid, detectedType |-> detectedType,
     expectedType |-> detectedType, errors |-> errors,
     formattedValue |-> formattedValue]

\* validateTyped, with the length test of the text branch written >= : a text
\* of exactly the longest length is refused
validateTyped_inclusive(type, raw, stringValue) ==
    CASE type = "number" ->
            IF ~isValidNumber(stringValue)
            THEN validationResult(type, FALSE, <<ErrorNumber>>, raw)
            ELSE validationResult(type, TRUE, <<>>, numberToString(stringValue))
      [] type = "date" ->
            IF ~isValidDate(stringValue)
            THEN validationResult(type, FALSE, <<ErrorDate>>, raw)
            ELSE validationResult(type, TRUE, <<>>,
                                  toLocaleDateString(newDate(stringValue)))
      [] type = "text" ->
            IF Len(stringValue) >= MaxTextLength
            THEN validationResult(type, FALSE, <<ErrorText>>, stringValue)
            ELSE validationResult(type, TRUE, <<>>, stringValue)
      [] type = "empty" -> validationResult(type, TRUE, <<>>, <<>>)
      [] OTHER -> validationResult(type, TRUE, <<>>, stringValue)

\* the switch of validateValue on typeToValidate, for a value that is not
\* empty; stringValue is String(value).trim()
validateTyped(type, raw, stringValue) ==
    CASE type = "number" ->
            IF ~isValidNumber(stringValue)
            THEN validationResult(type, FALSE, <<ErrorNumber>>, raw)
            ELSE validationResult(type, TRUE, <<>>, numberToString(stringValue))
      [] type = "date" ->
            IF ~isValidDate(stringValue)
            THEN validationResult(type, FALSE, <<ErrorDate>>, raw)
            ELSE validationResult(type, TRUE, <<>>,
                                  toLocaleDateString(newDate(stringValue)))
      [] type = "text" ->
            IF Len(stringValue) > MaxTextLength
            THEN validationResult(type, FALSE, <<ErrorText>>, stringValue)
            ELSE validationResult(type, TRUE, <<>>, stringValue)
      [] type = "empty" -> validationResult(type, TRUE, <<>>, <<>>)
      [] OTHER -> validationResult(type, TRUE, <<>>, stringValue)

\* validateValue(value) with expectedType = null
validateValue(value) ==
    IF Falsy(value) \/ trim(value.chars) = <<>>
    THEN validationResult("empty", TRUE, <<>>, <<>>)
    ELSE validateTyped(detectDataType(value), value.chars, trim(String(value)))

----------------------------------------------------------------------------
(* SpecValidate: validateValue applied to a typed value, and again to the  *)
(* formatted value it returns.                                             *)

\* the longest value typed, counted in fragments
MaxFragments == 4

\* the pieces a typed value is made of
Fragments == {<<"1">>, <<"0">>, <<"9", "9">>, <<"/", "1">>, <<"/", "9", "9">>,
              <<"e">>, <<"-">>, <<".">>, <<"=">>, <<" ">>}

RECURSIVE Typed(_)
Typed(n) ==
    IF n = 0 THEN {<<>>}
    ELSE Typed(n - 1) \cup {t \o f : t \in Typed(n - 1), f \in Fragments}

\* a text of n letters
Letters(n) == [i \in 1..n |-> "A"]

Blanks == {<<>>, <<" ">>}

\* texts around the longest accepted length, with and without blanks around
LongTexts ==
    {pre \o Letters(n) \o post :
        pre \in Blanks, post \in Blanks,
        n \in (MaxTextLength - 1)..(MaxTextLength + 1)}

\* any typed string, a long text, null or undefined
ValidateInputs ==
    {JsNull, JsUndefined} \cup {Str(t) : t \in Typed(MaxFragments) \cup LongTexts}

ValidateInit ==
    /\ vInput \in ValidateInputs
    /\ vResult = NoValidation
    /\ vAgain = NoValidation
    /\ GridIdle
    /\ FormulaIdle
    /\ SyncIdle
    /\ UndoIdle
    /\ RefIdle
    /\ EditIdle
    /\ RangeIdle

\* validateValue(value), then validateValue(result.formattedValue)
Validate ==
    /\ vResult = NoValidation
    /\ vResult' = validateValue(vInput)
    /\ vAgain' = validateValue(Str(validateValue(vInput).formattedValue))
    /\ UNCHANGED vInput
    /\ UNCHANGED gridVars
    /\ UNCHANGED formulaVars
    /\ UNCHANGED syncVars
    /\ UNCHANGED undoVars
    /\ UNCHANGED refVars
    /\ UNCHANGED editVars
    /\ UNCHANGED rangeVars

ValidateNext == Validate

----------------------------------------------------------------------------
(* Events between the clients and the relay (Spec)                         *)

\* bounds of Spec
MaxOps == 2
MaxDrops == 1

NoCell == <<0, 0>>
NoUser == "none"

Without(f, keys) == [k \in DOMAIN f \ keys |-> f[k]]

\* one Socket.IO event with its payload
Msg(event, user_id, cell_id, value, type, index, cells) ==
    [event |-> event, user_id |-> user_id, cell_id |-> cell_id, value |-> value,
     type |-> type, index |-> index, cells |-> cells]

----------------------------------------------------------------------------
(* The relay (Spec)                                                        *)

\* the relay sends msgs to every session of the set to
Broadcast(to, msgs) ==
    toClient' = [d \in Clients |-> IF d \in to THEN toClient[d] \o msgs ELSE toClient[d]]

\* disconnect: removes the Session, clears the selection it held and
\* tells the remaining joined sessions; nothing reaches the closed socket
disconnect(c) ==
    /\ sessions' = sessions \ {c}
    /\ left' = IF c \in sessions THEN left \cup {c} ELSE left
    /\ toClient' = [d \in Clients |->
            IF d = c THEN <<>>
            ELSE IF c \in sessions /\ d \in sessions
                 THEN toClient[d] \o <<Msg("user_left", c, NoCell, "", "", 0, <<>>),
                                       Msg("user_selection_cleared", c, NoCell, "", "", 0, <<>>)>>
                 ELSE toClient[d]]

\* the next event of the socket of c that reaches the relay
Received(c, event) ==
    /\ connected[c]
    /\ toRelay[c] # <<>>
    /\ Head(toRelay[c]).event = event

\* an event handler of the relay; events of sessions that have not joined
\* are ignored
relayHandler(c, event, newCells, to, msgs) ==
    /\ Received(c, event)
    /\ toRelay' = [toRelay EXCEPT ![c] = Tail(@)]
    /\ IF c \in sessions
       THEN /\ docCells' = newCells
            /\ Broadcast(to, msgs)
            /\ applied' = IF event = "cell_selection" THEN applied
                          ELSE Append(applied, Head(toRelay[c]))
       ELSE UNCHANGED <<docCells, toClient, applied>>
    /\ UNCHANGED <<sessions, left, clientVars, ops, drops>>
    /\ UNCHANGED <<gridVars, formulaVars>>
    /\ UNCHANGED undoVars
    /\ UNCHANGED refVars
    /\ UNCHANGED editVars
    /\ UNCHANGED validateVars
    /\ UNCHANGED rangeVars

\* join_spreadsheet: registers the Session, sends the snapshot to it and
\* user_joined to the other joined sessions
join_spreadsheet(c) ==
    /\ Received(c, "join_spreadsheet")
    /\ toRelay' = [toRelay EXCEPT ![c] = Tail(@)]
    /\ sessions' = sessions \cup {c}
    /\ toClient' = [d \in Clients |->
            IF d = c
            THEN toClient[d] \o <<Msg("spreadsheet_data", c, NoCell, "", "", 0, docCells)>>
            ELSE IF d \in sessions
                 THEN toClient[d] \o <<Msg("user_joined", c, NoCell, "", "", 0, <<>>)>>
                 ELSE toClient[d]]
    /\ UNCHANGED <<docCells, applied, left, clientVars, ops, drops>>
    /\ UNCHANGED <<gridVars, formulaVars>>
    /\ UNCHANGED undoVars
    /\ UNCHANGED refVars
    /\ UNCHANGED editVars
    /\ UNCHANGED validateVars
    /\ UNCHANGED rangeVars

\* cell_update: overwrites the Cell and broadcasts it to the other sessions;
\* a coordinate outside the grid is dropped
cell_update(c) ==
    relayHandler(c, "cell_update",
        IF InGrid(Head(toRelay[c]).cell_id)
        THEN Merge(docCells, [k \in {Head(toRelay[c]).cell_id} |->
                                  ObjEntry(Head(toRelay[c]).value)])
        ELSE docCells,
        sessions \ {c},
        IF InGrid(Head(toRelay[c]).cell_id)
        THEN <<Msg("cell_updated", c, Head(toRelay[c]).cell_id, Head(toRelay[c]).value,
                   "", 0, <<>>)>>
        ELSE <<>>)

\* cell_selection: broadcasts the new selection to the others
cell_selection(c) ==
    relayHandler(c, "cell_selection", docCells, sessions \ {c},
        <<Msg("cell_selected", c, Head(toRelay[c]).cell_id, "", "", 0, <<>>),
          Msg("user_selection", c, Head(toRelay[c]).cell_id, "", "", 0, <<>>)>>)

\* the cells of the map that lie inside the grid
insideGrid(cells) == Without(cells, {k \in DOMAIN cells : ~InGrid(k)})

\* row_operation: shifts the rows beyond the pivot, drops what a delete
\* removes or an insert pushes out, and broadcasts the whole map to all
rowShift(cells, type, index) ==
    insideGrid(IF type = "insert" THEN insertRowCells(cells, index)
               ELSE deleteRowCells(cells, index))

row_operation(c) ==
    relayHandler(c, "row_operation",
        rowShift(docCells, Head(toRelay[c]).type, Head(toRelay[c]).index),
        sessions,
        <<Msg("row_operation_applied", c, NoCell, "", Head(toRelay[c]).type,
              Head(toRelay[c]).index,
              rowShift(docCells, Head(toRelay[c]).type, Head(toRelay[c]).index))>>)

\* column_operation: as row_operation, on columns
columnShift(cells, type, index) ==
    insideGrid(IF type = "insert" THEN insertColumnCells(cells, index)
               ELSE deleteColumnCells(cells, index))

column_operation(c) ==
    relayHandler(c, "column_operation",
        columnShift(docCells, Head(toRelay[c]).type, Head(toRelay[c]).index),
        sessions,
        <<Msg("column_operation_applied", c, NoCell, "", Head(toRelay[c]).type,
              Head(toRelay[c]).index,
              columnShift(docCells, Head(toRelay[c]).type, Head(toRelay[c]).index))>>)

----------------------------------------------------------------------------
(* Clients: App.js and the socket handlers of Spreadsheet.js (Spec)        *)

\* socket.emit(event, payload): written to the transport, or kept in the
\* socket's send buffer until the next connect
Emit(c, msgs) == toRelay' = [toRelay EXCEPT ![c] = @ \o msgs]

\* the Spreadsheet component is rendered
Mounted(c) == ~showUserModal[c] /\ ~spreadsheetData[c].null

\* the next event the socket of c hands to its listeners
Incoming(c, event) ==
    /\ connected[c]
    /\ toClient[c] # <<>>
    /\ Head(toClient[c]).event = event

Consume(c) == toClient' = [toClient EXCEPT ![c] = Tail(@)]

\* setData(prev => ({...prev, cells}))
setCells(c, cells) ==
    spreadsheetData' = [spreadsheetData EXCEPT ![c] = [null |-> FALSE, cells |-> cells]]

\* keys of userSelections: a cell id (cell_selected) or a session id (user_selection)
KeyCell(cellId) == [cell |-> cellId, user |-> NoUser]
KeyUser(user) == [cell |-> NoCell, user |-> user]

\* the socket of c closes: what it had in flight is lost
socketClosed(c) ==
    /\ connected' = [connected EXCEPT ![c] = FALSE]
    /\ session' = [session EXCEPT ![c] = "disconnected"]
    /\ toRelay' = [toRelay EXCEPT ![c] = <<>>]

\* the socket connects: the 'connect' listener, then the once-listener of
\* handleUserSubmit if it is registered
Connect(c) ==
    /\ ~connected[c]
    /\ connected' = [connected EXCEPT ![c] = TRUE]
    /\ IF oncePending[c]
       THEN /\ Emit(c, <<Msg("join_spreadsheet", c, NoCell, "", "", 0, <<>>)>>)
            /\ session' = [session EXCEPT ![c] = "join_sent"]
       ELSE /\ UNCHANGED toRelay
            /\ session' = [session EXCEPT ![c] = "connected"]
    /\ oncePending' = [oncePending EXCEPT ![c] = FALSE]
    /\ UNCHANGED <<showUserModal, spreadsheetData, userSelections, activeUsers>>
    /\ UNCHANGED <<toClient, relayVars, ops, drops>>
    /\ UNCHANGED <<gridVars, formulaVars>>
    /\ UNCHANGED undoVars
    /\ UNCHANGED refVars
    /\ UNCHANGED editVars
    /\ UNCHANGED validateVars
    /\ UNCHANGED rangeVars

\* handleUserSubmit(userData)
handleUserSubmit(c) ==
    /\ showUserModal[c]
    /\ showUserModal' = [showUserModal EXCEPT ![c] = FALSE]
    /\ oncePending' = [oncePending EXCEPT ![c] = TRUE]
    /\ IF connected[c]
       THEN socketClosed(c) /\ disconnect(c)
       ELSE UNCHANGED <<connected, session, toRelay, toClient, sessions, left>>
    /\ UNCHANGED <<spreadsheetData, userSelections, activeUsers>>
    /\ UNCHANGED <<docCells, applied, ops, drops>>
    /\ UNCHANGED <<gridVars, formulaVars>>
    /\ UNCHANGED undoVars
    /\ UNCHANGED refVars
    /\ UNCHANGED editVars
    /\ UNCHANGED validateVars
    /\ UNCHANGED rangeVars

\* the transport of a connected socket drops; the socket reconnects by itself
TransportDrop(c) ==
    /\ connected[c]
    /\ drops < MaxDrops
    /\ drops' = drops + 1
    /\ socketClosed(c)
    /\ disconnect(c)
    /\ UNCHANGED <<oncePending, showUserModal, spreadsheetData, userSelections,
                   activeUsers, docCells, applied, ops>>
    /\ UNCHANGED <<gridVars, formulaVars>>
    /\ UNCHANGED undoVars
    /\ UNCHANGED refVars
    /\ UNCHANGED editVars
    /\ UNCHANGED validateVars
    /\ UNCHANGED rangeVars

\* socket.on('spreadsheet_data'): setSpreadsheetData(data)
on_spreadsheet_data(c) ==
    /\ Incoming(c, "spreadsheet_data")
    /\ Consume(c)
    /\ setCells(c, Head(toClient[c]).cells)
    /\ session' = [session EXCEPT ![c] = IF @ = "join_sent" THEN "joined" ELSE @]
    /\ UNCHANGED <<connected, oncePending, showUserModal, userSelections, activeUsers>>
    /\ UNCHANGED <<toRelay, relayVars, ops, drops>>
    /\ UNCHANGED <<gridVars, formulaVars>>
    /\ UNCHANGED undoVars
    /\ UNCHANGED refVars
    /\ UNCHANGED editVars
    /\ UNCHANGED validateVars
    /\ UNCHANGED rangeVars

\* a listener of Spreadsheet.js changes the cell map; without the component
\* nothing listens and the event is lost
cellsListener(c, event, cells) ==
    /\ Incoming(c, event)
    /\ Consume(c)
    /\ IF Mounted(c) THEN setCells(c, cells) ELSE UNCHANGED spreadsheetData
    /\ UNCHANGED <<connected, oncePending, showUserModal, userSelections,
                   activeUsers, session>>
    /\ UNCHANGED <<toRelay, relayVars, ops, drops>>
    /\ UNCHANGED <<gridVars, formulaVars>>
    /\ UNCHANGED undoVars
    /\ UNCHANGED refVars
    /\ UNCHANGED editVars
    /\ UNCHANGED validateVars
    /\ UNCHANGED rangeVars

\* socket.on('cell_updated')
on_cell_updated(c) ==
    cellsListener(c, "cell_updated",
        Merge(spreadsheetData[c].cells,
              [k \in {Head(toClient[c]).cell_id} |-> ObjEntry(Head(toClient[c]).value)]))

\* socket.on('row_operation_applied')
on_row_operation_applied(c) ==
    cellsListener(c, "row_operation_applied", Head(toClient[c]).cells)

\* socket.on('column_operation_applied')
on_column_operation_applied(c) ==
    cellsListener(c, "column_operation_applied", Head(toClient[c]).cells)

\* a listener changes userSelections
selectionsListener(c, event, selections) ==
    /\ Incoming(c, event)
    /\ Consume(c)
    /\ userSelections' = [userSelections EXCEPT ![c] = selections]
    /\ UNCHANGED <<connected, oncePending, showUserModal, spreadsheetData,
                   activeUsers, session>>
    /\ UNCHANGED <<toRelay, relayVars, ops, drops>>
    /\ UNCHANGED <<gridVars, formulaVars>>
    /\ UNCHANGED undoVars
    /\ UNCHANGED refVars
    /\ UNCHANGED editVars
    /\ UNCHANGED validateVars
    /\ UNCHANGED rangeVars

\* the entries of one user, whatever their key
SelectionsOf(selections, user_id) ==
    {k \in DOMAIN selections : selections[k].user_id = user_id}

\* socket.on('cell_selected') without the loop that clears the previous
\* selection of the user
on_cell_selected_keeping(c) ==
    selectionsListener(c, "cell_selected",
        IF Mounted(c) /\ Head(toClient[c]).user_id # c
        THEN Merge(userSelections[c],
                   [k \in {KeyCell(Head(toClient[c]).cell_id)} |->
                        [user_id |-> Head(toClient[c]).user_id, cell_id |-> NoCell]])
        ELSE userSelections[c])

\* socket.on('cell_selected'); the socket id of a client is its name
on_cell_selected(c) ==
    selectionsListener(c, "cell_selected",
        IF Mounted(c) /\ Head(toClient[c]).user_id # c
        THEN Merge(Without(userSelections[c],
                           SelectionsOf(userSelections[c], Head(toClient[c]).user_id)),
                   [k \in {KeyCell(Head(toClient[c]).cell_id)} |->
                        [user_id |-> Head(toClient[c]).user_id, cell_id |-> NoCell]])
        ELSE userSelections[c])

\* newSocket.on('user_selection')
on_user_selection(c) ==
    selectionsListener(c, "user_selection",
        Merge(userSelections[c],
              [k \in {KeyUser(Head(toClient[c]).user_id)} |->
                   [user_id |-> Head(toClient[c]).user_id,
                    cell_id |-> Head(toClient[c]).cell_id]]))

\* newSocket.on('user_selection_cleared')
on_user_selection_cleared(c) ==
    selectionsListener(c, "user_selection_cleared",
        Without(userSelections[c], {KeyUser(Head(toClient[c]).user_id)}))

\* a listener changes activeUsers
usersListener(c, event, users) ==
    /\ Incoming(c, event)
    /\ Consume(c)
    /\ activeUsers' = [activeUsers EXCEPT ![c] = users]
    /\ UNCHANGED <<connected, oncePending, showUserModal, spreadsheetData,
                   userSelections, session>>
    /\ UNCHANGED <<toRelay, relayVars, ops, drops>>
    /\ UNCHANGED <<gridVars, formulaVars>>
    /\ UNCHANGED undoVars
    /\ UNCHANGED refVars
    /\ UNCHANGED editVars
    /\ UNCHANGED validateVars
    /\ UNCHANGED rangeVars

\* newSocket.on('active_users'): setActiveUsers(users)
on_active_users(c) ==
    usersListener(c, "active_users", Head(toClient[c]).users)

\* newSocket.on('user_joined')
on_user_joined(c) ==
    usersListener(c, "user_joined", Append(activeUsers[c], Head(toClient[c]).user_id))

\* newSocket.on('user_left')
on_user_left(c) ==
    usersListener(c, "user_left",
        SelectSeq(activeUsers[c], LAMBDA sid : sid # Head(toClient[c]).user_id))

\* a handler of the rendered Spreadsheet that changes the cell map and emits
userHandler(c, cells, msgs) ==
    /\ Mounted(c)
    /\ ops < MaxOps
    /\ ops' = ops + 1
    /\ setCells(c, cells)
    /\ Emit(c, msgs)
    /\ UNCHANGED <<connected, oncePending, showUserModal, userSelections,
                   activeUsers, session>>
    /\ UNCHANGED <<toClient, relayVars, drops>>
    /\ UNCHANGED <<gridVars, formulaVars>>
    /\ UNCHANGED undoVars
    /\ UNCHANGED refVars
    /\ UNCHANGED editVars
    /\ UNCHANGED validateVars
    /\ UNCHANGED rangeVars

\* handleCellEdit(cellId, value)
handleCellEdit(c, cellId, value) ==
    userHandler(c, Merge(spreadsheetData[c].cells, [k \in {cellId} |-> StrEntry(value)]),
                <<Msg("cell_update", c, cellId, value, "", 0, <<>>)>>)

\* handleCellClick(cellId, event) without the shift key
handleCellClick(c, cellId) ==
    userHandler(c, spreadsheetData[c].cells,
                <<Msg("cell_selection", c, cellId, "", "", 0, <<>>)>>)

\* a row/column handler: when the forEach throws, setData and socket.emit
\* are never reached
structuralHandler(c, event, type, index, newCells) ==
    IF Throws(spreadsheetData[c].cells)
    THEN userHandler(c, spreadsheetData[c].cells, <<>>)
    ELSE userHandler(c, newCells, <<Msg(event, c, NoCell, "", type, index, <<>>)>>)

\* insertRowAt(rowIndex, position)
insertRowAt(c, rowIndex, position) ==
    structuralHandler(c, "row_operation", "insert", insertIndexOf(rowIndex, position),
        insertRowCells(spreadsheetData[c].cells, insertIndexOf(rowIndex, position)))

\* deleteRowAt(rowIndex)
deleteRowAt(c, rowIndex) ==
    structuralHandler(c, "row_operation", "delete", rowIndex,
        deleteRowCells(spreadsheetData[c].cells, rowIndex))

\* insertColumnAt(colIndex, position)
insertColumnAt(c, colIndex, position) ==
    structuralHandler(c, "column_operation", "insert", insertIndexOf(colIndex, position),
        insertColumnCells(spreadsheetData[c].cells, insertIndexOf(colIndex, position)))

\* deleteColumnAt(colIndex)
deleteColumnAt(c, colIndex) ==
    structuralHandler(c, "column_operation", "delete", colIndex,
        deleteColumnCells(spreadsheetData[c].cells, colIndex))

\* what the users of Spec type, click and choose
SyncIds == {<<65, 1>>, <<65, 2>>}
SyncEditIds == {<<65, 1>>}
SyncRowIndices == {0}
SyncColIndices == {0}
Positions == {"before"}

Init ==
    /\ SyncIdle
    /\ UndoIdle
    /\ RefIdle
    /\ EditIdle
    /\ ValidateIdle
    /\ RangeIdle
    /\ GridIdle
    /\ FormulaIdle

Next ==
    \/ \E c \in Clients : Connect(c)
    \/ \E c \in Clients : handleUserSubmit(c)
    \/ \E c \in Clients : TransportDrop(c)
    \/ \E c \in Clients : on_spreadsheet_data(c)
    \/ \E c \in Clients : on_cell_updated(c)
    \/ \E c \in Clients : on_row_operation_applied(c)
    \/ \E c \in Clients : on_column_operation_applied(c)
    \/ \E c \in Clients : on_cell_selected(c)
    \/ \E c \in Clients : on_user_selection(c)
    \/ \E c \in Clients : on_user_selection_cleared(c)
    \/ \E c \in Clients : on_user_joined(c)
    \/ \E c \in Clients : on_user_left(c)
    \/ \E c \in Clients, cellId \in SyncEditIds, value \in GridValues :
            handleCellEdit(c, cellId, value)
    \/ \E c \in Clients, cellId \in SyncIds : handleCellClick(c, cellId)
    \/ \E c \in Clients, i \in SyncRowIndices, p \in Positions : insertRowAt(c, i, p)
    \/ \E c \in Clients, i \in SyncRowIndices : deleteRowAt(c, i)
    \/ \E c \in Clients, i \in SyncColIndices, p \in Positions : insertColumnAt(c, i, p)
    \/ \E c \in Clients, i \in SyncColIndices : deleteColumnAt(c, i)
    \/ \E c \in Clients : join_spreadsheet(c)
    \/ \E c \in Clients : cell_update(c)
    \/ \E c \in Clients : cell_selection(c)
    \/ \E c \in Clients : row_operation(c)
    \/ \E c \in Clients : column_operation(c)

----------------------------------------------------------------------------
(* SpecSelect: the selection view of one joined client while the other     *)
(* sessions of the document select cells                                   *)

MaxSelections == 3

\* the client whose view is followed, and the other joined sessions
Viewer == "c1"
RemoteUsers == {"r1", "r2"}

SelectInit ==
    /\ connected = [c \in Clients |-> c = Viewer]
    /\ oncePending = [c \in Clients |-> FALSE]
    /\ showUserModal = [c \in Clients |-> c # Viewer]
    /\ spreadsheetData = [c \in Clients |->
            IF c = Viewer THEN [null |-> FALSE, cells |-> <<>>] ELSE NullData]
    /\ userSelections = [c \in Clients |-> <<>>]
    /\ activeUsers = [c \in Clients |-> <<>>]
    /\ session = [c \in Clients |-> IF c = Viewer THEN "joined" ELSE "disconnected"]
    /\ toRelay = [c \in Clients |-> <<>>]
    /\ toClient = [c \in Clients |-> <<>>]
    /\ docCells = <<>> /\ sessions = {Viewer} \cup RemoteUsers /\ applied = <<>> /\ left = {}
    /\ ops = 0 /\ drops = 0
    /\ GridIdle
    /\ FormulaIdle
    /\ ValidateIdle
    /\ RefIdle
    /\ UndoIdle
    /\ EditIdle
    /\ RangeIdle

\* the relay handles cell_selection of another session: cell_selected and
\* user_selection go to the viewer
remoteSelection(u, cellId) ==
    /\ ops < MaxSelections
    /\ ops' = ops + 1
    /\ applied' = Append(applied, Msg("cell_selection", u, cellId, "", "", 0, <<>>))
    /\ Broadcast({Viewer},
           <<Msg("cell_selected", u, cellId, "", "", 0, <<>>),
             Msg("user_selection", u, cellId, "", "", 0, <<>>)>>)
    /\ UNCHANGED <<clientVars, toRelay, docCells, sessions, left, drops>>
    /\ UNCHANGED <<gridVars, formulaVars>>
    /\ UNCHANGED undoVars
    /\ UNCHANGED refVars
    /\ UNCHANGED editVars
    /\ UNCHANGED validateVars
    /\ UNCHANGED rangeVars

SelectNext ==
    \/ \E u \in RemoteUsers, cellId \in SyncIds : remoteSelection(u, cellId)
    \/ \E c \in Clients : on_cell_selected(c)
    \/ \E c \in Clients : on_user_selection(c)

----------------------------------------------------------------------------
(* SpecUsers: the active-user list of one joined client while the other    *)
(* sessions join, join again after a CSV import, and disconnect            *)

\* the number of relay events followed
MaxUserEvents == 4

UsersInit ==
    /\ connected = [c \in Clients |-> c = Viewer]
    /\ oncePending = [c \in Clients |-> FALSE]
    /\ showUserModal = [c \in Clients |-> c # Viewer]
    /\ spreadsheetData = [c \in Clients |->
            IF c = Viewer THEN [null |-> FALSE, cells |-> <<>>] ELSE NullData]
    /\ userSelections = [c \in Clients |-> <<>>]
    /\ activeUsers = [c \in Clients |-> <<>>]
    /\ session = [c \in Clients |-> IF c = Viewer THEN "joined" ELSE "disconnected"]
    /\ toRelay = [c \in Clients |-> <<>>]
    /\ toClient = [c \in Clients |-> <<>>]
    /\ docCells = <<>> /\ sessions = {Viewer} /\ applied = <<>> /\ left = {}
    /\ ops = 0 /\ drops = 0
    /\ GridIdle
    /\ FormulaIdle
    /\ ValidateIdle
    /\ RefIdle
    /\ UndoIdle
    /\ EditIdle
    /\ RangeIdle

\* what a relay event of another session leaves alone
remoteEvent ==
    /\ ops < MaxUserEvents
    /\ ops' = ops + 1
    /\ UNCHANGED <<clientVars, toRelay, docCells, applied, drops>>
    /\ UNCHANGED <<gridVars, formulaVars>>
    /\ UNCHANGED undoVars
    /\ UNCHANGED refVars
    /\ UNCHANGED editVars
    /\ UNCHANGED validateVars
    /\ UNCHANGED rangeVars

\* the relay handles join_spreadsheet of session u, sent on its connection
\* or again after a CSV import (DataPersistence.handleCsvImport): it
\* registers the session and sends user_joined to the other joined sessions
remoteJoin(u) ==
    /\ remoteEvent
    /\ u \notin left
    /\ sessions' = sessions \cup {u}
    /\ Broadcast({Viewer}, <<Msg("user_joined", u, NoCell, "", "", 0, <<>>)>>)
    /\ UNCHANGED left

\* the relay handles the disconnect of session u: user_left and
\* user_selection_cleared go to the remaining sessions
remoteDisconnect(u) ==
    /\ remoteEvent
    /\ u \in sessions
    /\ sessions' = sessions \ {u}
    /\ left' = left \cup {u}
    /\ Broadcast({Viewer}, <<Msg("user_left", u, NoCell, "", "", 0, <<>>),
                             Msg("user_selection_cleared", u, NoCell, "", "", 0, <<>>)>>)

\* the sessions of a set, listed once each
SessionList(S) ==
    CHOOSE list \in [1..Cardinality(S) -> S] : {list[i] : i \in DOMAIN list} = S

\* the relay sends the list of the registered sessions
relayActiveUsers ==
    /\ remoteEvent
    /\ Broadcast({Viewer}, <<[event |-> "active_users", users |-> SessionList(sessions)]>>)
    /\ UNCHANGED <<sessions, left>>

UsersNext ==
    \/ \E u \in RemoteUsers : remoteJoin(u)
    \/ \E u \in RemoteUsers : remoteDisconnect(u)
    \/ relayActiveUsers
    \/ \E c \in Clients : on_active_users(c)
    \/ \E c \in Clients : on_user_joined(c)
    \/ \E c \in Clients : on_user_left(c)
    \/ \E c \in Clients : on_user_selection_cleared(c)

----------------------------------------------------------------------------
(* SpecEdit: one client selecting, navigating and editing cells with the   *)
(* mouse and the keyboard (Spreadsheet.js 265-550, Cell.js, and the Cell   *)
(* that validates what it commits: config.js 318-525, part_002)            *)

\* the number of user events followed
MaxEditSteps == 3

\* A1 and Z100
EditIds == {<<65, 1>>, <<90, 100>>}

\* "x", "1.0" and " 1/99/99" (a date that does not exist)
EditTexts == {<<"x">>, <<"1", ".", "0">>, <<" ", "1", "/", "9", "9", "/", "9", "9">>}

GridKeys == {"ArrowUp", "ArrowDown", "ArrowLeft", "ArrowRight", "Tab", "Enter",
             "Backspace", "x"}
CellKeys == {"Enter", "Escape", "Tab"}

SelectionMsg(cellId) == [event |-> "cell_selection", cell_id |-> cellId, value |-> <<>>]
UpdateMsg(cellId, value) == [event |-> "cell_update", cell_id |-> cellId, value |-> value]

\* value={cellData?.value || ''}: a string entry has no value field
valueProp(cells, cellId) ==
    IF cellId \in DOMAIN cells /\ cells[cellId].kind = "object"
    THEN cells[cellId].value
    ELSE <<>>

\* displayValue of a Cell that is not being edited
formattedOr(formatted, value) == IF formatted # <<>> THEN formatted ELSE value
displayValue(validating, value) ==
    IF validating THEN formattedOr(validateValue(Str(value)).formattedValue, value)
    ELSE value

\* the branches of the Cell's commit on the validation of its editValue,
\* invalid values handed over trimmed
savedValue_trimmed(text, validation) ==
    IF validation.detectedType = "formula" THEN text
    ELSE IF validation.isValid THEN validation.formattedValue
    ELSE trim(text)

\* the branches of the Cell's commit on the validation of its editValue:
\* what it hands to onEdit / onTabEdit
savedValue(text, validation) ==
    IF validation.detectedType = "formula" THEN text
    ELSE IF validation.isValid THEN validation.formattedValue
    ELSE text

\* what the Cell hands to onEdit / onTabEdit for its editValue: the validating
\* Cell validates it first, Cell.js hands it over as it is
committedValue(validating, text) ==
    IF validating THEN savedValue(text, validateValue(Str(text))) ELSE text

NavTimer(fn, cellId) == [fn |-> fn, cell |-> cellId]

EditInit ==
    /\ selectedCell = <<65, 1>>
    /\ selectionStart = <<65, 1>>
    /\ editingCell = NoCell
    /\ editValue = <<>>
    /\ validates \in BOOLEAN
    /\ focus = "grid"
    /\ blurPending = NoCell
    /\ timers = {}
    /\ navigatingWithTab = {}
    /\ handledByTab = {}
    /\ editOp = NoEditOp
    /\ gridCells \in {EmptyCells, [k \in {<<65, 1>>} |-> ObjEntry(<<"y">>)]}
    /\ gridPrev = gridCells
    /\ gridOp = NoOp
    /\ gridEmit = {}
    /\ gridSteps = 0
    /\ FormulaIdle
    /\ SyncIdle
    /\ UndoIdle
    /\ RefIdle
    /\ ValidateIdle
    /\ RangeIdle

\* what every handler of the model does: it is counted, what it emits and
\* its arguments are recorded, and the state of other components stays
EditHandler(op, emits) ==
    /\ gridPrev' = gridCells
    /\ gridEmit' = emits
    /\ editOp' = op
    /\ UNCHANGED <<gridOp, validates>>
    /\ UNCHANGED <<rangeCells, probeCell, probeInRange, rangeValues>>
    /\ UNCHANGED formulaVars
    /\ UNCHANGED <<connected, oncePending, showUserModal, spreadsheetData,
                   userSelections, activeUsers, session, toRelay, toClient,
                   docCells, sessions, applied, left, ops, drops>>
    /\ UNCHANGED <<vInput, vResult, vAgain>>
    /\ UNCHANGED refVars
    /\ UNCHANGED undoVars

\* a mouse or keyboard event of the user
UserEvent ==
    /\ gridSteps < MaxEditSteps
    /\ blurPending = NoCell
    /\ gridSteps' = gridSteps + 1

\* handleCellEdit(cellId, value) followed by setTimeout(navigate..., 5)
CommitAndNavigate(cellId, value, fn) ==
    /\ gridCells' = Merge(gridCells, [k \in {cellId} |-> StrEntry(value)])
    /\ editingCell' = NoCell
    /\ timers' = timers \cup {NavTimer(fn, cellId)}

\* handleCellMouseDown(cellId, event) with the main button; the browser then
\* moves the focus to the grid, away from an edit input elsewhere
EditMouseDown(cellId) ==
    /\ UserEvent
    /\ EditHandler([type |-> "mousedown", cell |-> cellId, value |-> <<>>],
                   {SelectionMsg(cellId)})
    /\ selectedCell' = cellId
    /\ selectionStart' = cellId
    /\ selectedRange' = [null |-> FALSE, start |-> cellId, end |-> cellId]
    /\ focus' = IF focus = "input" /\ editingCell = cellId THEN "input" ELSE "grid"
    /\ blurPending' = IF focus = "input" /\ editingCell # cellId THEN editingCell
                      ELSE NoCell
    /\ UNCHANGED <<gridCells, editingCell, editValue, timers, navigatingWithTab,
                   handledByTab>>

\* handleCellClick(cellId, event)
EditClick(cellId, shiftKey) ==
    /\ UserEvent
    /\ EditHandler([type |-> "click", cell |-> cellId, value |-> <<>>],
                   IF shiftKey THEN {} ELSE {SelectionMsg(cellId)})
    /\ IF shiftKey
       THEN /\ selectedRange' = [null |-> FALSE, start |-> selectedCell, end |-> cellId]
            /\ UNCHANGED <<selectedCell, selectionStart>>
       ELSE /\ selectedCell' = cellId
            /\ selectedRange' = NullSelection
            /\ selectionStart' = cellId
    /\ UNCHANGED <<gridCells, editingCell, editValue, focus, blurPending, timers,
                   navigatingWithTab, handledByTab>>

\* handleCellDoubleClick(cellId) and the effects of the Cell that enters edit
\* mode: editValue is set from the value prop, editHandledByTabRef is reset,
\* the input takes the focus
EnterEditMode(cellId) ==
    /\ editingCell' = cellId
    /\ editValue' = valueProp(gridCells, cellId)
    /\ handledByTab' = handledByTab \ {cellId}
    /\ focus' = "input"
    /\ blurPending' = IF focus = "input" /\ editingCell # cellId THEN editingCell
                      ELSE NoCell

EditDoubleClick(cellId) ==
    /\ UserEvent
    /\ EditHandler([type |-> "dblclick", cell |-> cellId, value |-> <<>>], {})
    /\ EnterEditMode(cellId)
    /\ UNCHANGED <<gridCells, selectedCell, selectionStart, selectedRange, timers,
                   navigatingWithTab>>

\* keyTarget without Math.max and Math.min: the cell next to cellId in the
\* direction of the key, in the grid or not
keyTarget_unclamped(cellId, key, shiftKey) ==
    LET colIndex == cellId[1] - CharA
        rowIndex == cellId[2] - 1
    IN  CASE key = "ArrowUp" -> getCellId(rowIndex - 1, colIndex)
          [] key = "ArrowDown" -> getCellId(rowIndex + 1, colIndex)
          [] key = "ArrowLeft" -> getCellId(rowIndex, colIndex - 1)
          [] key = "ArrowRight" -> getCellId(rowIndex, colIndex + 1)
          [] key = "Tab" /\ shiftKey -> getCellId(rowIndex, colIndex - 1)
          [] key = "Tab" /\ ~shiftKey -> getCellId(rowIndex, colIndex + 1)
          [] key = "Enter" -> getCellId(rowIndex - 1, colIndex)

\* the cell an arrow, Tab or Shift+Enter key moves to, clamped to the grid
keyTarget(cellId, key, shiftKey) ==
    LET colIndex == cellId[1] - CharA
        rowIndex == cellId[2] - 1
    IN  CASE key = "ArrowUp" -> getCellId(Max(0, rowIndex - 1), colIndex)
          [] key = "ArrowDown" -> getCellId(Min(ROWS - 1, rowIndex + 1), colIndex)
          [] key = "ArrowLeft" -> getCellId(rowIndex, Max(0, colIndex - 1))
          [] key = "ArrowRight" -> getCellId(rowIndex, Min(COLUMNS - 1, colIndex + 1))
          [] key = "Tab" /\ shiftKey -> getCellId(rowIndex, Max(0, colIndex - 1))
          [] key = "Tab" /\ ~shiftKey -> getCellId(rowIndex, Min(COLUMNS - 1, colIndex + 1))
          [] key = "Enter" -> getCellId(Max(0, rowIndex - 1), colIndex)

\* the cells the user shift-clicks: the one below and the one to the right
\* of the selected cell
ShiftIds(cellId) ==
    {keyTarget(cellId, "ArrowDown", FALSE), keyTarget(cellId, "ArrowRight", FALSE)}

\* the cells of getCellRange(range.start, range.end).flat()
flatRange(range) ==
    LET rows == getCellRange(range.start, range.end)
    IN  {rows[i][j] : i \in DOMAIN rows, j \in DOMAIN rows[1]}

\* handleKeyDown(e) without the returns of the listener and the handler for
\* a grid that is not focused or a cell being edited
EditKeyDown_unguarded(key, shiftKey) ==
    /\ UserEvent
    /\ IF selectedCell = NoCell
       THEN \* not focused, or in edit mode: the handler returns
            /\ EditHandler([type |-> "ignored", cell |-> selectedCell, value |-> <<>>], {})
            /\ UNCHANGED <<gridCells, selectedCell, selectionStart, selectedRange,
                           editingCell, editValue, focus, blurPending, timers,
                           navigatingWithTab, handledByTab>>
       ELSE IF (key = "Enter" /\ ~shiftKey) \/ key = "x"
       THEN \* enter edit mode on the selected cell
            /\ EditHandler([type |-> "editmode", cell |-> selectedCell, value |-> <<>>], {})
            /\ EnterEditMode(selectedCell)
            /\ UNCHANGED <<gridCells, selectedCell, selectionStart, selectedRange,
                           timers, navigatingWithTab>>
       ELSE IF key = "Backspace" /\ ~selectedRange.null
       THEN \* clear the selected range
            /\ EditHandler([type |-> "clearrange", cell |-> selectedCell, value |-> <<>>],
                           {UpdateMsg(k, <<>>) : k \in flatRange(selectedRange)})
            /\ gridCells' = Merge(gridCells,
                                  [k \in flatRange(selectedRange) |-> ObjEntry(<<>>)])
            /\ UNCHANGED <<selectedCell, selectionStart, selectedRange, editingCell,
                           editValue, focus, blurPending, timers, navigatingWithTab,
                           handledByTab>>
       ELSE IF key = "Backspace"
       THEN \* handleCellEdit(currentSelectedCell, '')
            /\ EditHandler([type |-> "clear", cell |-> selectedCell, value |-> <<>>],
                           {UpdateMsg(selectedCell, <<>>)})
            /\ gridCells' = Merge(gridCells, [k \in {selectedCell} |-> StrEntry(<<>>)])
            /\ editingCell' = NoCell
            /\ UNCHANGED <<selectedCell, selectionStart, selectedRange, editValue,
                           focus, blurPending, timers, navigatingWithTab, handledByTab>>
       ELSE \* navigation
            /\ EditHandler([type |-> "navigate", cell |-> selectedCell,
                            value |-> (IF shiftKey THEN <<"Shift">> ELSE <<>>) \o <<key>>],
                           {SelectionMsg(keyTarget(selectedCell, key, shiftKey))})
            /\ selectedCell' = keyTarget(selectedCell, key, shiftKey)
            /\ IF shiftKey
               THEN /\ selectedRange' = [null |-> FALSE, start |-> selectionStart,
                                         end |-> keyTarget(selectedCell, key, shiftKey)]
                    /\ UNCHANGED selectionStart
               ELSE /\ selectedRange' = NullSelection
                    /\ selectionStart' = keyTarget(selectedCell, key, shiftKey)
            /\ UNCHANGED <<gridCells, editingCell, editValue, focus, blurPending,
                           timers, navigatingWithTab, handledByTab>>

\* handleKeyDown(e) of the grid, called by the document's keydown listener
EditKeyDown(key, shiftKey) ==
    /\ UserEvent
    /\ IF focus # "grid" \/ editingCell # NoCell
       THEN \* not focused, or in edit mode: the handler returns
            /\ EditHandler([type |-> "ignored", cell |-> selectedCell, value |-> <<>>], {})
            /\ UNCHANGED <<gridCells, selectedCell, selectionStart, selectedRange,
                           editingCell, editValue, focus, blurPending, timers,
                           navigatingWithTab, handledByTab>>
       ELSE IF (key = "Enter" /\ ~shiftKey) \/ key = "x"
       THEN \* enter edit mode on the selected cell
            /\ EditHandler([type |-> "editmode", cell |-> selectedCell, value |-> <<>>], {})
            /\ EnterEditMode(selectedCell)
            /\ UNCHANGED <<gridCells, selectedCell, selectionStart, selectedRange,
                           timers, navigatingWithTab>>
       ELSE IF key = "Backspace" /\ ~selectedRange.null
       THEN \* clear the selected range
            /\ EditHandler([type |-> "clearrange", cell |-> selectedCell, value |-> <<>>],
                           {UpdateMsg(k, <<>>) : k \in flatRange(selectedRange)})
            /\ gridCells' = Merge(gridCells,
                                  [k \in flatRange(selectedRange) |-> ObjEntry(<<>>)])
            /\ UNCHANGED <<selectedCell, selectionStart, selectedRange, editingCell,
                           editValue, focus, blurPending, timers, navigatingWithTab,
                           handledByTab>>
       ELSE IF key = "Backspace"
       THEN \* handleCellEdit(currentSelectedCell, '')
            /\ EditHandler([type |-> "clear", cell |-> selectedCell, value |-> <<>>],
                           {UpdateMsg(selectedCell, <<>>)})
            /\ gridCells' = Merge(gridCells, [k \in {selectedCell} |-> StrEntry(<<>>)])
            /\ editingCell' = NoCell
            /\ UNCHANGED <<selectedCell, selectionStart, selectedRange, editValue,
                           focus, blurPending, timers, navigatingWithTab, handledByTab>>
       ELSE \* navigation
            /\ EditHandler([type |-> "navigate", cell |-> selectedCell,
                            value |-> (IF shiftKey THEN <<"Shift">> ELSE <<>>) \o <<key>>],
                           {SelectionMsg(keyTarget(selectedCell, key, shiftKey))})
            /\ selectedCell' = keyTarget(selectedCell, key, shiftKey)
            /\ IF shiftKey
               THEN /\ selectedRange' = [null |-> FALSE, start |-> selectionStart,
                                         end |-> keyTarget(selectedCell, key, shiftKey)]
                    /\ UNCHANGED selectionStart
               ELSE /\ selectedRange' = NullSelection
                    /\ selectionStart' = keyTarget(selectedCell, key, shiftKey)
            /\ UNCHANGED <<gridCells, editingCell, editValue, focus, blurPending,
                           timers, navigatingWithTab, handledByTab>>

\* onChange of the edit input: setEditValue(e.target.value)
CellChange(text) ==
    /\ UserEvent
    /\ editingCell # NoCell /\ focus = "input"
    /\ EditHandler([type |-> "change", cell |-> editingCell, value |-> text], {})
    /\ editValue' = text
    /\ UNCHANGED <<gridCells, selectedCell, selectionStart, selectedRange,
                   editingCell, focus, blurPending, timers, navigatingWithTab,
                   handledByTab>>

\* handleKeyDown(e) of the Cell being edited: Enter and Tab commit editValue,
\* Escape hands the value prop to onEdit; the parent leaves edit mode, which
\* removes the input
CellKeyDown(key) ==
    /\ UserEvent
    /\ editingCell # NoCell /\ focus = "input"
    /\ LET cellId == editingCell
           value == IF key = "Escape" THEN valueProp(gridCells, cellId)
                    ELSE committedValue(validates, editValue)
       IN  /\ EditHandler([type |-> key, cell |-> cellId, value |-> editValue],
                          {UpdateMsg(cellId, value)})
           /\ CommitAndNavigate(cellId, value, IF key = "Tab" THEN "right" ELSE "below")
           /\ editValue' = IF key = "Escape" THEN valueProp(gridCells, cellId)
                           ELSE editValue
           /\ navigatingWithTab' = IF key = "Tab" THEN navigatingWithTab \cup {cellId}
                                   ELSE navigatingWithTab
           /\ handledByTab' = IF key = "Tab" THEN handledByTab \cup {cellId}
                              ELSE handledByTab
           /\ focus' = "none"
           /\ blurPending' = cellId
    /\ UNCHANGED <<selectedCell, selectionStart, selectedRange>>

\* handleBlur() of the Cell whose input lost the focus
CellBlur ==
    /\ blurPending # NoCell
    /\ LET cellId == blurPending
           commits == cellId \notin navigatingWithTab /\ cellId \notin handledByTab
           value == committedValue(validates, editValue)
       IN  /\ EditHandler([type |-> "blur", cell |-> cellId, value |-> editValue],
                          IF commits THEN {UpdateMsg(cellId, value)} ELSE {})
           /\ IF commits
              THEN /\ gridCells' = Merge(gridCells, [k \in {cellId} |-> StrEntry(value)])
                   /\ editingCell' = NoCell
                   /\ timers' = timers \cup {NavTimer("below", cellId),
                                             NavTimer("reset", cellId)}
              ELSE /\ timers' = timers \cup {NavTimer("reset", cellId)}
                   /\ UNCHANGED <<gridCells, editingCell>>
    /\ blurPending' = NoCell
    /\ focus' = IF focus = "input" THEN "none" ELSE focus
    /\ UNCHANGED <<gridSteps, selectedCell, selectionStart, selectedRange, editValue,
                   navigatingWithTab, handledByTab>>

\* the input was removed from the page and the browser delivers no blur
\* event for it
NoBlur ==
    /\ blurPending # NoCell /\ editingCell # blurPending
    /\ EditHandler([type |-> "noblur", cell |-> blurPending, value |-> <<>>], {})
    /\ blurPending' = NoCell
    /\ UNCHANGED <<gridSteps, gridCells, selectedCell, selectionStart, selectedRange,
                   editingCell, editValue, focus, timers, navigatingWithTab,
                   handledByTab>>

\* a setTimeout callback runs: navigateToCellBelow(cellId),
\* navigateToCellRight(cellId), or the reset of a Cell's Tab flags
TimerFires(t) ==
    /\ t \in timers
    /\ blurPending = NoCell
    /\ EditHandler([type |-> t.fn, cell |-> t.cell, value |-> <<>>], {})
    /\ timers' = timers \ {t}
    /\ selectedCell' =
          IF t.fn = "below" /\ parseCellId(t.cell).row < ROWS - 1
          THEN getCellId(parseCellId(t.cell).row + 1, parseCellId(t.cell).col)
          ELSE IF t.fn = "right" /\ parseCellId(t.cell).col < COLUMNS - 1
          THEN getCellId(parseCellId(t.cell).row, parseCellId(t.cell).col + 1)
          ELSE selectedCell
    /\ navigatingWithTab' = IF t.fn = "reset" THEN navigatingWithTab \ {t.cell}
                            ELSE navigatingWithTab
    /\ handledByTab' = IF t.fn = "reset" THEN handledByTab \ {t.cell}
                       ELSE handledByTab
    /\ UNCHANGED <<gridSteps, gridCells, selectionStart, selectedRange, editingCell,
                   editValue, focus, blurPending>>

EditNext ==
    \/ \E cellId \in EditIds : EditMouseDown(cellId)
    \/ \E cellId \in EditIds : EditClick(cellId, FALSE)
    \/ \E cellId \in ShiftIds(selectedCell) : EditClick(cellId, TRUE)
    \/ \E cellId \in EditIds : EditDoubleClick(cellId)
    \/ \E key \in GridKeys, shiftKey \in BOOLEAN : EditKeyDown(key, shiftKey)
    \/ \E text \in EditTexts : CellChange(text)
    \/ \E key \in CellKeys : CellKeyDown(key)
    \/ CellBlur
    \/ NoBlur
    \/ \E t \in timers : TimerFires(t)

----------------------------------------------------------------------------
(* Specifications                                                          *)

SpecGrid == GridInit /\ [][GridNext]_vars

SpecFormula == FormulaInit /\ [][FormulaNext]_vars

SpecErrors == ErrorsInit /\ [][ErrorsNext]_vars

SpecRange == RangeInit /\ [][RangeNext]_vars

SpecSelect == SelectInit /\ [][SelectNext]_vars

SpecRef == RefInit /\ [][RefNext]_vars

SpecUsers == UsersInit /\ [][UsersNext]_vars

SpecUndo == UndoInit /\ [][UndoNext]_vars

SpecValidate == ValidateInit /\ [][ValidateNext]_vars

SpecEdit == EditInit /\ [][EditNext]_vars

Spec == Init /\ [][Next]_vars

----------------------------------------------------------------------------
(* Claims about the clients and the relay (Spec)                           *)

\* every emitted event has been handled and every broadcast delivered
Settled == \A c \in Clients : toRelay[c] = <<>> /\ toClient[c] = <<>>

\* the value a cell map shows for a cell, whether the entry is the raw
\* string of the local write or the object of a broadcast
ValueAt(cells, k) == IF k \in DOMAIN cells THEN cells[k].value ELSE ""
Values(cells) == [k \in DOMAIN cells |-> cells[k].value]

\* the last two events the relay applied are writes of two joined sessions
\* to one cell
TwoWriters ==
    /\ Len(applied) >= 2
    /\ applied[Len(applied)].event = "cell_update"
    /\ applied[Len(applied) - 1].event = "cell_update"
    /\ applied[Len(applied)].cell_id = applied[Len(applied) - 1].cell_id
    /\ applied[Len(applied)].user_id # applied[Len(applied) - 1].user_id
    /\ {applied[Len(applied)].user_id, applied[Len(applied) - 1].user_id} \subseteq sessions

\* C1: when two joined sessions write the same cell and the relay applies
\* one write after the other, then once all broadcasts are delivered the
\* relay and every joined client, both writers included, hold the value of
\* the write applied second
C1_LastWriteWins ==
    (Settled /\ TwoWriters) =>
        /\ ValueAt(docCells, applied[Len(applied)].cell_id) = applied[Len(applied)].value
        /\ \A c \in sessions :
               ValueAt(spreadsheetData[c].cells, applied[Len(applied)].cell_id)
                   = applied[Len(applied)].value

\* C2: once every cell_update, row_operation and column_operation of the
\* joined sessions has been applied and every broadcast delivered, the cell
\* map of every joined client equals the relay's
C2_EventualAgreement ==
    Settled => \A c \in sessions : Values(spreadsheetData[c].cells) = Values(docCells)

\* C3: after a joined session has disconnected and the relay's broadcasts
\* have been delivered, no other joined client's userSelections holds an
\* entry of that session, under a cell key or under a user key
C3_DisconnectClearsSelection ==
    \A d \in left : \A c \in sessions \ {d} :
        toClient[c] = <<>> =>
            \A k \in DOMAIN userSelections[c] : userSelections[c][k].user_id # d

\* C4: a client that had joined and whose connection is established again
\* after a drop has emitted join_spreadsheet on the new connection
C4_RejoinsOnReconnect ==
    \A c \in Clients :
        (connected[c] /\ ~spreadsheetData[c].null) => session[c] \in {"join_sent", "joined"}

DocumentEvents == {"cell_update", "cell_selection", "row_operation", "column_operation"}

\* the step emits a document event on the socket of c
Emits(c) ==
    /\ Len(toRelay'[c]) > Len(toRelay[c])
    /\ toRelay'[c][Len(toRelay'[c])].event \in DocumentEvents

\* C5: a client emits cell_update, cell_selection, row_operation or
\* column_operation only while its session is joined
C5_EmitsOnlyWhileJoined ==
    [][\A c \in Clients : Emits(c) => session[c] = "joined"]_vars

----------------------------------------------------------------------------
(* Claims about the row and column operations (SpecGrid)                   *)

\* the cell one row below / above, one column right / left of key k
RowBelow(k) == <<k[1], k[2] + 1>>
RowAbove(k) == <<k[1], k[2] - 1>>
ColRight(k) == <<k[1] + 1, k[2]>>
ColLeft(k) == <<k[1] - 1, k[2]>>

\* entry k of the old map is found under key nk of the new map
MovedTo(k, nk) == nk \in DOMAIN gridCells /\ gridCells[nk] = gridPrev[k]

\* C6: inserting a row at index k moves every cell with row >= k one row down
\* in the same column, leaves every cell with row < k in place, and the old
\* and new occupied coordinates correspond one to one (nothing lost, nothing
\* duplicated).
C6_InsertRowShiftsBijectively ==
    gridOp.type = "insertRow" =>
        /\ \A k \in DOMAIN gridPrev :
              IF k[2] - 1 >= gridOp.index THEN MovedTo(k, RowBelow(k))
                                          ELSE MovedTo(k, k)
        /\ Cardinality(DOMAIN gridCells) = Cardinality(DOMAIN gridPrev)

\* C7: deleting row (column) k removes every cell of that row (column), moves
\* every cell with a greater row (column) index by exactly one toward the
\* origin and leaves the cells with a smaller index unchanged.
C7_DeleteRemovesAndShifts ==
    /\ gridOp.type = "deleteRow" =>
          /\ \A k \in DOMAIN gridPrev :
                /\ k[2] - 1 > gridOp.index => MovedTo(k, RowAbove(k))
                /\ k[2] - 1 < gridOp.index => MovedTo(k, k)
          /\ Cardinality(DOMAIN gridCells) =
                Cardinality({k \in DOMAIN gridPrev : k[2] - 1 # gridOp.index})
    /\ gridOp.type = "deleteColumn" =>
          /\ \A k \in DOMAIN gridPrev :
                /\ k[1] - CharA > gridOp.index => MovedTo(k, ColLeft(k))
                /\ k[1] - CharA < gridOp.index => MovedTo(k, k)
          /\ Cardinality(DOMAIN gridCells) =
                Cardinality({k \in DOMAIN gridPrev : k[1] - CharA # gridOp.index})

\* C8: after any sequence of edits, pastes and row/column operations every
\* key of the client's cell map is a coordinate inside [A..Z] x [1..100].
C8_KeysInsideGrid == \A k \in DOMAIN gridCells : InGrid(k)

\* the cell at offset (r, c) of the target, offsets counted from 0
Shifted(target, r, c) == <<target[1] + c, target[2] + r>>

\* the offsets of a block's values
Offsets(block) ==
    {rc \in (0..(Len(block) - 1)) \X (0..(Len(block[1]) - 1)) :
        rc[2] < Len(block[rc[1] + 1])}

\* the offsets of the block that land inside the grid from the target
Landing(block, target) ==
    {rc \in Offsets(block) : InGrid(Shifted(target, rc[1], rc[2]))}

\* the cells a paste writes
Written(block, target) ==
    {Shifted(target, rc[1], rc[2]) : rc \in Landing(block, target)}

\* C26: a paste at target t writes the value at block offset (r, c) to the
\* cell at t shifted by (r, c) for every offset that lands inside the grid,
\* writes nothing for the others, changes no other cell and emits exactly
\* the cell_update of each written cell
C26_PasteWritesBlock ==
    gridOp.type \in {"paste", "pasteinput"} =>
        /\ \A rc \in Landing(gridOp.block, gridOp.target) :
              /\ Shifted(gridOp.target, rc[1], rc[2]) \in DOMAIN gridCells
              /\ gridCells[Shifted(gridOp.target, rc[1], rc[2])].value
                    = gridOp.block[rc[1] + 1][rc[2] + 1]
        /\ \A k \in DOMAIN gridCells \ Written(gridOp.block, gridOp.target) :
              k \in DOMAIN gridPrev /\ gridCells[k] = gridPrev[k]
        /\ DOMAIN gridPrev \subseteq DOMAIN gridCells
        /\ gridEmit =
              {[event |-> "cell_update",
                cell_id |-> Shifted(gridOp.target, rc[1], rc[2]),
                value |-> gridOp.block[rc[1] + 1][rc[2] + 1]] :
                  rc \in Landing(gridOp.block, gridOp.target)}

\* a row of two values was pasted at Z1: the first is written to Z1, the
\* second would land in column 27
C26_Witness ==
    /\ gridOp.type = "paste"
    /\ gridOp.target = <<CharZ, 1>>
    /\ Len(gridOp.block) = 1 /\ Len(gridOp.block[1]) = 2
    /\ gridCells[<<CharZ, 1>>].value = gridOp.block[1][1]

----------------------------------------------------------------------------
(* Claims about an insert undone by a delete (SpecUndo)                    *)

\* C28: inserting a row before k and then deleting row k restores the
\* original cell map, and likewise for a column
C28_InsertThenDeleteIsIdentity ==
    gridOp.type \in {"deleteRow", "deleteColumn"} => gridCells = gridOrigin

----------------------------------------------------------------------------
(* Claims about the formula evaluator (SpecFormula)                        *)

\* the cells of the inclusive rectangle spanned by the two typed corners
InputRect ==
    {IdAt(c, r) : c \in Min(fInput.start.c, fInput.end.c)..Max(fInput.start.c, fInput.end.c),
                  r \in Min(fInput.start.r, fInput.end.r)..Max(fInput.start.r, fInput.end.r)}

\* the integer a decimal text denotes
NumberText(n) ==
    IF n < 0 THEN <<"-">> \o RowName[0 - n] ELSE IF n = 0 THEN <<"0">> ELSE RowName[n]
Denotes(text) == CHOOSE n \in (0 - 10)..10 : NumberText(n) = text

RECURSIVE TotalOf(_)
TotalOf(ids) ==
    IF ids = {} THEN 0
    ELSE LET id == CHOOSE x \in ids : TRUE
         IN  Denotes(fData[id].value) + TotalOf(ids \ {id})

Evaluated == fFormula # <<>>
AskedFor(fn) == toUpperCase(fInput.fn) = fn
IsNumber(n) == ~fResult.null /\ ~fResult.nan /\ fResult.den = 1 /\ fResult.num = n
\* the result is the number p / q
IsFraction(p, q) == ~fResult.null /\ ~fResult.nan /\ fResult.num * q = p * fResult.den

AllNumberCells(ids) ==
    \A id \in ids : id \in DOMAIN fData /\ fData[id].data_type = "number"

Holds1to10 == \A r \in 1..10 : IdAt(1, r) \in DOMAIN fData /\ fData[IdAt(1, r)] = Doc1to10[IdAt(1, r)]
RangeA1A10 == {fInput.start.text, fInput.end.text} = {IdAt(1, 1), IdAt(1, 10)}

\* C9: over a rectangular range whose cells all have type number,
\* evaluateFormula returns the arithmetic total for SUM, the number of cells
\* for COUNT and total / count for AVERAGE; over A1:A10 holding 1..10 these
\* are 55, 10 and 5.5.
C9_NumberRangeAggregates ==
    /\ (Evaluated /\ AllNumberCells(InputRect)) =>
          /\ AskedFor(TextSUM) => IsNumber(TotalOf(InputRect))
          /\ AskedFor(TextCOUNT) => IsNumber(Cardinality(InputRect))
          /\ AskedFor(TextAVERAGE) => IsFraction(TotalOf(InputRect), Cardinality(InputRect))
    /\ (Evaluated /\ Holds1to10 /\ RangeA1A10) =>
          /\ AskedFor(TextSUM) => IsNumber(55)
          /\ AskedFor(TextCOUNT) => IsNumber(10)
          /\ AskedFor(TextAVERAGE) => fResult = [null |-> FALSE, nan |-> FALSE, num |-> 11, den |-> 2]

\* C9 witness: AVERAGE(A1:A10) over 1..10 has been evaluated to 5.5
C9_Witness ==
    /\ Evaluated /\ Holds1to10 /\ RangeA1A10 /\ AskedFor(TextAVERAGE)
    /\ fResult.num = 11 /\ fResult.den = 2

\* the cells of the range whose detected type is number
NumberCells(ids) == {id \in ids : id \in DOMAIN fData /\ fData[id].data_type = "number"}

\* C10: SUM, AVERAGE and COUNT take into account only the cells of the range
\* whose type is number; text, date, formula and empty cells add nothing to
\* the total or to the count, whatever their raw value.
C10_OnlyNumberCellsCount ==
    Evaluated =>
        LET cells == NumberCells(InputRect)
        IN  /\ AskedFor(TextSUM) => IsNumber(TotalOf(cells))
            /\ AskedFor(TextCOUNT) => IsNumber(Cardinality(cells))
            /\ AskedFor(TextAVERAGE) =>
                  IF cells = {} THEN IsNumber(0)
                  ELSE IsFraction(TotalOf(cells), Cardinality(cells))

\* C11: a formula with invalid syntax, an unsupported function, an argument
\* count other than one or an argument that is not a START:END range never
\* evaluates to a number: evaluateFormula returns null and the cell shows
\* '#ERROR!'
C11_MalformedFormulaIsError ==
    fFormula \in ErrorFormulas => fResult.null /\ fDisplay = TextERROR


----------------------------------------------------------------------------
(* Claims about cell references (SpecRef)                                  *)

\* one or more capital letters followed by a row number of at least 1
IsReference(text) ==
    \E n \in 1..(Len(text) - 1) :
        /\ \A i \in 1..n : IsUpper(text[i])
        /\ \A i \in (n + 1)..Len(text) : IsDigit(text[i])
        /\ \E i \in (n + 1)..Len(text) : text[i] # "0"

\* C23: parseCellRef returns null for every text that is not capital letters
\* followed by a row number of at least 1, and a result it returns has col
\* and row >= 0
C23_RejectsNonReferences ==
    refParsed =>
        /\ ~IsReference(refInput) => refResult.null
        /\ ~refResult.null => refResult.col >= 0 /\ refResult.row >= 0

----------------------------------------------------------------------------
(* Claims about the formula errors (SpecErrors)                            *)

\* a corner outside the 26 columns and 100 rows
OutsideGrid(ref) == ref.col >= COLUMNS \/ ref.row >= ROWS \/ ref.col < 0 \/ ref.row < 0

\* the formula is FN(START:END) and one of the corners is outside the grid
NamesCellOutsideGrid(formula) ==
    /\ ~parseFormula(formula).null
    /\ Len(parseFormula(formula).args) = 1
    /\ ~parseCellRange(parseFormula(formula).args[1]).null
    /\ \/ OutsideGrid(parseCellRange(parseFormula(formula).args[1]).start)
       \/ OutsideGrid(parseCellRange(parseFormula(formula).args[1]).end)

\* C22: for a formula whose range names a cell outside the 26-column by
\* 100-row grid, getFormulaError returns 'Invalid cell range' and the
\* formula does not evaluate to a number
C22_OutOfGridRangeIsError ==
    fFormula # <<>> /\ NamesCellOutsideGrid(fFormula) =>
        /\ fError = FormulaError(ErrorRange, <<>>)
        /\ fResult.null \/ fResult.nan

----------------------------------------------------------------------------
(* Claims about range resolution (SpecRange)                               *)

Between(x, p, q) == (p <= x /\ x <= q) \/ (q <= x /\ x <= p)

\* the cells of the inclusive rectangle spanned by two corners, whichever
\* corner is named first
Rectangle(a, b) ==
    {k \in (CharA..CharZ) \X (1..ROWS) : Between(k[1], a[1], b[1]) /\ Between(k[2], a[2], b[2])}

CellsOf(rows) == {rows[i][j] : i \in DOMAIN rows, j \in 1..(IF rows = <<>> THEN 0 ELSE Len(rows[1]))}

\* the number the range document holds in a grid cell
NumberAt(k) == [nan |-> FALSE, num |-> RangeNumber(k[2] - 1, k[1] - CharA), den |-> 1]

\* C12: the cells resolved for a range are exactly the inclusive rectangle
\* spanned by its corners, in whichever order the corners are given, for
\* getCellRange and for getRangeValues alike; isCellInRange holds exactly
\* for the cells getCellRange returns
C12_RangeIsRectangle ==
    ~selectedRange.null =>
        /\ CellsOf(rangeCells) = Rectangle(selectedRange.start, selectedRange.end)
        /\ probeInRange <=> probeCell \in CellsOf(rangeCells)
        /\ Len(rangeValues) = Cardinality(Rectangle(selectedRange.start, selectedRange.end))
        /\ {rangeValues[i] : i \in DOMAIN rangeValues}
               = {NumberAt(k) : k \in Rectangle(selectedRange.start, selectedRange.end)}

\* a range dragged from its lower right corner to its upper left one, and a
\* probe inside it
C12_Witness ==
    /\ ~selectedRange.null
    /\ selectedRange.start[1] > selectedRange.end[1]
    /\ selectedRange.start[2] > selectedRange.end[2]
    /\ Cardinality(CellsOf(rangeCells)) = 4
    /\ Len(rangeValues) = 4
    /\ probeInRange

----------------------------------------------------------------------------
(* Claims about the selection view (SpecSelect)                            *)

\* the cells highlighted for a user in the viewer's grid
HighlightsOf(u) ==
    {k \in DOMAIN userSelections[Viewer] :
        k.user = NoUser /\ userSelections[Viewer][k].user_id = u}

Selected(u) == \E i \in DOMAIN applied : applied[i].user_id = u

\* the cell of the latest cell_selection of a user
LastSelection(u) ==
    applied[CHOOSE i \in DOMAIN applied :
                /\ applied[i].user_id = u
                /\ \A j \in DOMAIN applied : j > i => applied[j].user_id # u].cell_id

\* C13: in a client's selection view every remote session has at most one
\* highlighted cell; once its selection events are delivered that cell is
\* its most recent selection and every earlier highlight is gone
C13_OneHighlightPerSession ==
    \A u \in RemoteUsers :
        /\ Cardinality(HighlightsOf(u)) <= 1
        /\ (toClient[Viewer] = <<>> /\ Selected(u))
               => HighlightsOf(u) \subseteq {KeyCell(LastSelection(u))}
        /\ (toClient[Viewer] = <<>> /\ KeyUser(u) \in DOMAIN userSelections[Viewer])
               => userSelections[Viewer][KeyUser(u)].cell_id = LastSelection(u)

\* a session selected one cell, then another, and the viewer shows the second
C13_Witness ==
    /\ toClient[Viewer] = <<>>
    /\ Len(applied) = 2
    /\ applied[1].user_id = applied[2].user_id
    /\ applied[1].cell_id # applied[2].cell_id
    /\ HighlightsOf(applied[2].user_id) = {KeyCell(applied[2].cell_id)}

\* C14: when sessions a and b both selected cell X and b has moved on to
\* another cell while a stays on X, the viewer still shows X highlighted
\* for a
C14_SharedCellKeepsHighlight ==
    toClient[Viewer] = <<>> =>
        \A a \in RemoteUsers, b \in RemoteUsers :
            (/\ a # b /\ Selected(a) /\ Selected(b)
             /\ LastSelection(b) # LastSelection(a)
             /\ \E i \in DOMAIN applied :
                    applied[i].user_id = b /\ applied[i].cell_id = LastSelection(a))
            => KeyCell(LastSelection(a)) \in HighlightsOf(a)

----------------------------------------------------------------------------
(* Claims about the active-user list (SpecUsers)                           *)

\* the events of a kind about session u that client c has yet to handle
Pending(c, event, u) ==
    {i \in DOMAIN toClient[c] :
        toClient[c][i].event = event /\ toClient[c][i].user_id = u}

\* C27: in every client the active-user list holds at most one entry per
\* session id, and none for a session whose user_left has been handled
C27_OneEntryPerSession ==
    \A c \in Clients :
        /\ \A i, j \in DOMAIN activeUsers[c] :
              activeUsers[c][i] = activeUsers[c][j] => i = j
        /\ \A u \in left :
              Pending(c, "user_left", u) = {} =>
                  \A i \in DOMAIN activeUsers[c] : activeUsers[c][i] # u

----------------------------------------------------------------------------
(* Claims about the validator (SpecValidate)                               *)

Validated == vResult # NoValidation

\* the types the validator may report
DataTypes == {"empty", "number", "date", "formula", "text"}

StartsWithEquals(value) ==
    value.type = "string" /\ value.chars # <<>> /\ Head(value.chars) = "="

\* C18: every string whose first character is "=" is detected as a formula
\* and reported valid, whatever follows the "="
C18_EqualsIsFormula ==
    (Validated /\ StartsWithEquals(vInput))
        => vResult.detectedType = "formula" /\ vResult.isValid

\* a string that is not blank, no number, no date and no formula
MatchesNoOtherType(value) ==
    /\ value.type = "string"
    /\ trim(value.chars) # <<>>
    /\ ~numberMatch(trim(value.chars)).matches
    /\ ~formatMatches(value.chars)
    /\ ~StartsWithEquals(value)

\* C19: validateValue returns a result for every string, for null and for
\* undefined; its detected type is one of empty, number, date, formula and
\* text; null and undefined are empty; a string that matches no other type
\* is text
C19_ValidateIsTotal ==
    Validated =>
        /\ vResult.detectedType \in DataTypes
        /\ vResult.isValid \in BOOLEAN
        /\ vInput \in {JsNull, JsUndefined} => vResult.detectedType = "empty"
        /\ MatchesNoOtherType(vInput) => vResult.detectedType = "text"

\* "1e" is no number: it falls through to text
C19_Witness ==
    /\ vInput = Str(<<"1", "e">>)
    /\ MatchesNoOtherType(vInput)
    /\ vResult.detectedType = "text"

\* C20: validating the formatted value of a string detects the type that
\* was detected for the string itself
C20_FormattingKeepsType ==
    (Validated /\ vInput.type = "string")
        => vAgain.detectedType = vResult.detectedType

\* C21 as stated: a value classified as text is invalid exactly when the
\* value's length exceeds 1000
C21_TextCapOnValueLength ==
    Validated /\ detectDataType(vInput) = "text" =>
        /\ vResult.detectedType = "text"
        /\ vResult.isValid <=> Len(vInput.chars) <= MaxTextLength

\* C21, amended: a value classified as text is invalid, with the error
\* 'Text too long', exactly when its length without the blanks around it
\* exceeds 1000; at 1000 it is valid, at 1001 invalid, and the detected type
\* is text in both cases
C21_TextCapOnTrimmedLength ==
    Validated /\ detectDataType(vInput) = "text" =>
        /\ vResult.detectedType = "text"
        /\ vResult.isValid <=> Len(trim(vInput.chars)) <= MaxTextLength
        /\ vResult.errors = IF vResult.isValid THEN <<>> ELSE <<ErrorText>>

\* a text of 1001 letters has been refused
C21_Witness ==
    /\ Validated
    /\ vInput = Str(Letters(MaxTextLength + 1))
    /\ vResult.detectedType = "text"
    /\ ~vResult.isValid

----------------------------------------------------------------------------
(* Claims about selection, navigation and editing (SpecEdit)               *)

\* C15: whenever the selected cell of the client changes, the handler that
\* changed it emits cell_selection with the new cell
C15_SelectionChangeIsAnnounced ==
    [][selectedCell' # selectedCell => SelectionMsg(selectedCell') \in gridEmit']_vars

\* the last handler committed a value: Enter or Tab in the edit input, a
\* blur of the input that the Tab flags did not suppress, or Backspace on a
\* single selected cell
CommitOps == {"Enter", "Tab", "blur", "clear"}
Committed == editOp.type \in CommitOps /\ gridEmit # {}

\* C16: right after a commit of value v for cell c the local cell map holds
\* for c a cell record whose value field is v, and the grid displays v for c
C16_CommitShowsValue ==
    Committed =>
        \A m \in gridEmit :
            /\ m.cell_id \in DOMAIN gridCells
            /\ gridCells[m.cell_id] = ObjEntry(m.value)
            /\ displayValue(validates, valueProp(gridCells, m.cell_id)) = m.value

\* the last handler committed the text of the edit input, and the text
\* fails validation
CommittedInvalid ==
    /\ editOp.type \in {"Enter", "Tab", "blur"}
    /\ (editOp.type = "blur" =>
            editOp.cell \notin navigatingWithTab \cup handledByTab)
    /\ ~validateValue(Str(editOp.value)).isValid

\* C17: a commit of a text that fails validation emits exactly one
\* cell_update that carries the text as typed, and stores the text as typed
\* in the local cell map
C17_InvalidTextIsWritten ==
    CommittedInvalid =>
        /\ gridEmit = {UpdateMsg(editOp.cell, editOp.value)}
        /\ editOp.cell \in DOMAIN gridCells
        /\ gridCells[editOp.cell] = StrEntry(editOp.value)

\* the validating Cell committed " 1/99/99" with Enter
C17_Witness ==
    /\ validates
    /\ editOp.type = "Enter"
    /\ editOp.value = <<" ", "1", "/", "9", "9", "/", "9", "9">>
    /\ CommittedInvalid
    /\ gridEmit = {UpdateMsg(editOp.cell, editOp.value)}

\* C24: Escape pressed while a cell is edited cancels the edit: edit mode
\* ends, the cell keeps the value it had, no cell_update is emitted and the
\* selected cell does not move
C24_EscapeCancels ==
    [][editOp'.type = "Escape" =>
          /\ editingCell' = NoCell
          /\ gridCells' = gridCells
          /\ \A m \in gridEmit' : m.event # "cell_update"
          /\ selectedCell' = selectedCell]_vars

\* the moves of the selection: a navigation key pressed on the grid, and the
\* advance that follows a commit (below after Enter, right after Tab)
MoveOps == {"navigate", "below", "right"}

\* the cell a move starts from
MoveFrom(op, selected) == IF op.type = "navigate" THEN selected ELSE op.cell

\* the column and row steps a move asks for
MoveStep(op) ==
    CASE op.type = "below" -> <<0, 1>>
      [] op.type = "right" -> <<1, 0>>
      [] op.value \in {<<"ArrowUp">>, <<"Shift", "ArrowUp">>, <<"Shift", "Enter">>} -> <<0, 0 - 1>>
      [] op.value \in {<<"ArrowDown">>, <<"Shift", "ArrowDown">>} -> <<0, 1>>
      [] op.value \in {<<"ArrowLeft">>, <<"Shift", "ArrowLeft">>, <<"Shift", "Tab">>} -> <<0 - 1, 0>>
      [] op.value \in {<<"ArrowRight">>, <<"Shift", "ArrowRight">>, <<"Tab">>} -> <<1, 0>>

\* the cell a move asks for, in the grid or not
MoveAsked(op, selected) ==
    <<MoveFrom(op, selected)[1] + MoveStep(op)[1], MoveFrom(op, selected)[2] + MoveStep(op)[2]>>

\* C25: after arrow, Tab, Shift+Tab and Shift+Enter key presses and
\* commit-and-advance moves the selected cell is within A1..Z100: a move
\* inside the grid selects the next cell, a move that would leave the grid
\* at an edge leaves the selection where it is
C25_SelectionStaysInGrid ==
    [][/\ InGrid(selectedCell')
       /\ editOp'.type \in MoveOps =>
             selectedCell' = IF InGrid(MoveAsked(editOp', selectedCell))
                             THEN MoveAsked(editOp', selectedCell)
                             ELSE selectedCell]_vars

\* an edit of Z100 was committed and the advance below it left the
\* selection on Z100
C25_Witness ==
    /\ editOp.type = "below"
    /\ editOp.cell = <<CharZ, ROWS>>
    /\ selectedCell = <<CharZ, ROWS>>

\* C29: each commit of an edit produces one cell_update for the edited cell:
\* when Enter or Tab has committed the edit and the blur event of the same
\* input follows, the blur emits no second cell_update
C29_BlurDoesNotCommitAgain ==
    [][/\ editOp.type \in {"Enter", "Tab"}
       /\ editOp'.type = "blur"
       /\ editOp'.cell = editOp.cell
       => gridEmit' = {}]_vars

\* what the grid's key handler does with a key
GridKeyOps == {"ignored", "editmode", "clearrange", "clear", "navigate"}

\* C30: while a cell is in edit mode a key that reaches the grid's key
\* handler changes neither the selected cell nor the selected range, clears
\* no cell, emits nothing and leaves the cell in edit mode
C30_GridKeysIgnoredWhileEditing ==
    [][editingCell # NoCell /\ editOp'.type \in GridKeyOps =>
          /\ selectedCell' = selectedCell
          /\ selectedRange' = selectedRange
          /\ gridCells' = gridCells
          /\ gridEmit' = {}
          /\ editingCell' = editingCell]_vars

\* a key was pressed while a cell was edited, and the grid's handler
\* returned
C30_Witness ==
    /\ editOp.type = "ignored"
    /\ editingCell # NoCell
    /\ focus = "input"

====
